---- MODULE Spec2Model ----
(***************************************************************************)
(* Model of the prediction / retrieval core of fpl-toolkit-gui:            *)
(*   - the process-wide lazy caches of backend.py and intent_classifier.py *)
(*     under concurrent request threads                 (Spec, SpecSeq),   *)
(*   - the sliding-window trainer of ai_models.py       (SpecTrain),       *)
(*     and the trainer run more than once               (SpecRetrain),     *)
(*   - its sample builder and its prediction ranker     (SpecRank),        *)
(*   - the feature statistics of its fit                (SpecFit),         *)
(*   - the TF-IDF intent classifier                     (SpecClassify),    *)
(*   - the classifier and a model under repeated reads  (SpecReaders),     *)
(*   - the corpus builder of rag_engine.py              (SpecKB),          *)
(*   - its KnowledgeBase, retrieve and generate_answer  (SpecRetrieve,     *)
(*     SpecAnswer),                                                        *)
(*   - its squad projection                             (SpecProjection),  *)
(*   - the chat handler of backend.py                   (SpecChat).        *)
(* Floats are modelled as fixed-point integers with FX units per 1.0,      *)
(* except in SpecFit, where they are binary floating-point numbers of      *)
(* Precision bits rounded to nearest, ties to even.                        *)
(***************************************************************************)
EXTENDS Integers, Sequences, FiniteSets, TLC

None == 0    \* Python None in a slot that holds an object id or a model id

(***************************************************************************)
(* Bounds of the model.                                                    *)
(***************************************************************************)
NumThreads == 2      \* concurrent request threads
MaxCalls == 2        \* requests served in one run

(***************************************************************************)
(* Program constants.                                                      *)
(***************************************************************************)
MinHistories == 15            \* rag_engine.py:211, fpl_logic.py:661
DEFAULT_HISTORY_WINDOW == 5   \* ai_models.py:15, rag_engine.py:214

VARIABLES
    _classifier,            \* intent_classifier.py:192, None or an object id
    heap,                   \* the IntentClassifier objects allocated so far
    _AI_PREDICTION_CACHE,   \* backend.py:15, None or a prediction bundle
    pc, op, ctx, frame, ret, \* per request thread: position, entry point,
                            \* context snapshot, locals, last value returned
    calls,                  \* requests started
    classifierBuilds,       \* completed IntentClassifier() constructions
    trainRuns,              \* train_points_model calls, per entry point
    fetchBuilds,            \* bundles computed inside _fetch_or_train_ai_model
    kb_in, kb_out,          \* build_knowledge_base: its arguments, its result
    t_in,                   \* ai_models: player_histories and history_window
    smp,                    \* the outcome of _build_training_samples
    pred,                   \* the outcome of predict_upcoming_points
    train,                  \* train_points_model: its locals and its outcome
    clf_arg,                \* IntentClassifier(intent_examples): the argument
    clf,                    \* the IntentClassifier object under construction or built
    reply,                  \* classify: the text and the ClassificationResult
    col_fit,                \* _gradient_descent_fit: one feature column and its statistics
    rt_in, rt_out,          \* retrieve: its arguments, its result
    answer,                 \* generate_answer: its documents and its result
    proj,                   \* compute_team_projection: its inputs and its result
    chat                    \* the chat handler: the message and the steps taken

cacheVars == <<_classifier, heap, _AI_PREDICTION_CACHE, pc, op, ctx, frame, ret,
               calls, classifierBuilds, trainRuns, fetchBuilds>>

kbVars == <<kb_in, kb_out>>

mlVars == <<t_in, smp, pred, train>>

clfVars == <<clf_arg, clf, reply>>

fitVars == <<col_fit>>

rtVars == <<rt_in, rt_out>>

ragVars == <<answer, proj>>

chatVars == <<chat>>

vars == <<cacheVars, kbVars, mlVars, clfVars, fitVars, rtVars, ragVars, chatVars>>

\* What the request threads leave alone.
pureVars == <<kbVars, mlVars, clfVars, fitVars, rtVars, ragVars, chatVars>>

Threads == 1 .. NumThreads

(***************************************************************************)
(* Entry points that reach the two caches or train a model.                *)
(*   classify : chat -> _detect_intent -> get_intent_classifier            *)
(*   fetch    : ai-predictions, ai-team-performance, head-to-head          *)
(*              explanation -> _fetch_or_train_ai_model                    *)
(*   kb       : chat retrieval fallback -> build_knowledge_base            *)
(*   table    : GET /api/features/ai-predictions                           *)
(*              -> generate_ai_prediction_table                            *)
(***************************************************************************)
EntryPoints == {"classify", "fetch", "kb", "table"}

\* What a request's context snapshot decides for the trainer: how many
\* shortlisted players have at least 6 matches of history, and whether every
\* label match carries a numeric total_points.
Contexts == [histories : {MinHistories - 1, MinHistories}, label_ok : BOOLEAN]

NoContext == [histories |-> 0, label_ok |-> TRUE]

\* Python None in a slot that holds a prediction bundle
NoBundle == [model |-> None, predictions |-> None, history_window |-> 0]

EmptyFrame == [obj |-> None, model |-> None, predictions |-> None, bundle |-> NoBundle]

NoReturn == [tag |-> "none"]

Raise(exc) == [tag |-> "raise", exc |-> exc]

EntryPc(kind) ==
    CASE kind = "classify" -> "gic_check"
      [] kind = "fetch"    -> "fetch_check"
      [] kind = "kb"       -> "cap_filter"
      [] kind = "table"    -> "tab_filter"

TotalTrainRuns == trainRuns["fetch"] + trainRuns["kb"] + trainRuns["table"]

\* No corpus build has been asked for.
KbIdle ==
    /\ kb_in = [phase |-> "none"]
    /\ kb_out = [phase |-> "none"]

NoInput == [histories |-> << >>, w |-> 0]

NoSamples == [phase |-> "none", exc |-> "none", rows |-> << >>, targets |-> << >>]

NoModel == [weights |-> << >>, bias |-> 0, feature_means |-> << >>,
            feature_stds |-> << >>, samples |-> 0]

NoPredictions == [phase |-> "none", model |-> NoModel, predictions |-> << >>]

NoTraining == [phase |-> "none", exc |-> "none", epoch |-> 0, normalised |-> << >>,
               targets |-> << >>, model |-> NoModel, previous |-> << >>]

\* No ai_models call is under way.
MlIdle ==
    /\ t_in = NoInput
    /\ smp = NoSamples
    /\ pred = NoPredictions
    /\ train = NoTraining

NoClassifier == [phase |-> "none", intent_examples |-> << >>, documents |-> << >>,
                 idf |-> << >>, intent_vectors |-> << >>]

NoReply == [phase |-> "none", text |-> << >>, found |-> FALSE, intent |-> "", score |-> 0]

\* No classifier is being built or asked.
ClfIdle ==
    /\ clf_arg = << >>
    /\ clf = NoClassifier
    /\ reply = NoReply

\* No column statistics are being computed.
FitIdle == col_fit = [phase |-> "none"]

\* No retrieval has been asked for.
RtIdle ==
    /\ rt_in = [phase |-> "none"]
    /\ rt_out = [phase |-> "none"]

\* No answer is being composed and no squad is being projected.
RagIdle ==
    /\ answer = [phase |-> "none"]
    /\ proj = [phase |-> "none"]

\* No chat message is being handled.
ChatIdle == chat = [phase |-> "none"]

CacheInit ==
    /\ _classifier = None
    /\ heap = << >>
    /\ _AI_PREDICTION_CACHE = NoBundle
    /\ pc = [t \in Threads |-> "idle"]
    /\ op = [t \in Threads |-> "none"]
    /\ ctx = [t \in Threads |-> NoContext]
    /\ frame = [t \in Threads |-> EmptyFrame]
    /\ ret = [t \in Threads |-> NoReturn]
    /\ calls = 0
    /\ classifierBuilds = 0
    /\ trainRuns = [k \in {"fetch", "kb", "table"} |-> 0]
    /\ fetchBuilds = 0

Init == CacheInit /\ KbIdle /\ MlIdle /\ ClfIdle /\ FitIdle /\ RtIdle /\ RagIdle /\ ChatIdle

\* The call of thread t moves to location loc, its locals becoming f.
Goto(t, loc, f) ==
    /\ pc' = [pc EXCEPT ![t] = loc]
    /\ frame' = [frame EXCEPT ![t] = f]
    /\ UNCHANGED <<op, ctx, ret, pureVars>>

\* The call of thread t ends with value (a return value or an exception);
\* its locals are gone.
Finish(t, value) ==
    /\ ret' = [ret EXCEPT ![t] = value]
    /\ pc' = [pc EXCEPT ![t] = "idle"]
    /\ op' = [op EXCEPT ![t] = "none"]
    /\ ctx' = [ctx EXCEPT ![t] = NoContext]
    /\ frame' = [frame EXCEPT ![t] = EmptyFrame]
    /\ UNCHANGED pureVars

\* A request arrives on an idle thread; build_context() takes its snapshot.
StartCall(t, kind, c) ==
    /\ pc[t] = "idle"
    /\ calls < MaxCalls
    /\ calls' = calls + 1
    /\ op' = [op EXCEPT ![t] = kind]
    /\ ctx' = [ctx EXCEPT ![t] = IF kind = "classify" THEN NoContext ELSE c]
    /\ frame' = [frame EXCEPT ![t] = EmptyFrame]
    /\ ret' = [ret EXCEPT ![t] = NoReturn]
    /\ pc' = [pc EXCEPT ![t] = EntryPc(kind)]
    /\ UNCHANGED <<_classifier, heap, _AI_PREDICTION_CACHE, classifierBuilds, trainRuns,
                   fetchBuilds, pureVars>>

(***************************************************************************)
(* get_intent_classifier, intent_classifier.py:195-199, and the            *)
(* constructor it runs, intent_classifier.py:103-148.                      *)
(***************************************************************************)
\* line 197: if _classifier is None
GicCheck(t) ==
    /\ pc[t] = "gic_check"
    /\ Goto(t, IF _classifier = None THEN "gic_new" ELSE "gic_return", frame[t])
    /\ UNCHANGED <<_classifier, heap, _AI_PREDICTION_CACHE, calls, classifierBuilds, trainRuns, fetchBuilds>>

\* Mutant: the object is published in the slot as soon as it is allocated.
InitPublishesEarly(slot, id) == id

\* What the constructor publishes in the global slot when it allocates object
\* id: nothing, the object is a temporary until line 198 assigns it.
InitPublishes(slot, id) == slot

\* lines 104-106: the object exists with empty idf and intent_vectors
ClassifierInit(t) ==
    /\ pc[t] = "gic_new"
    /\ heap' = Append(heap, [idf |-> "empty", intent_vectors |-> "empty"])
    /\ _classifier' = InitPublishes(_classifier, Len(heap) + 1)
    /\ Goto(t, "fit_idf", [frame[t] EXCEPT !.obj = Len(heap) + 1])
    /\ UNCHANGED <<_AI_PREDICTION_CACHE, calls, classifierBuilds, trainRuns, fetchBuilds>>

\* lines 110-133 of _fit: the idf table is assigned
FitIdf(t) ==
    /\ pc[t] = "fit_idf"
    /\ heap' = [heap EXCEPT ![frame[t].obj].idf = "fitted"]
    /\ Goto(t, "fit_vectors", frame[t])
    /\ UNCHANGED <<_classifier, _AI_PREDICTION_CACHE, calls, classifierBuilds, trainRuns, fetchBuilds>>

\* lines 135-148 of _fit: the centroids are assigned, the constructor returns
FitVectors(t) ==
    /\ pc[t] = "fit_vectors"
    /\ heap' = [heap EXCEPT ![frame[t].obj].intent_vectors = "fitted"]
    /\ classifierBuilds' = classifierBuilds + 1
    /\ Goto(t, "gic_store", frame[t])
    /\ UNCHANGED <<_classifier, _AI_PREDICTION_CACHE, calls, trainRuns, fetchBuilds>>

\* line 198: _classifier = <the constructed object>
GicStore(t) ==
    /\ pc[t] = "gic_store"
    /\ _classifier' = frame[t].obj
    /\ Goto(t, "gic_return", frame[t])
    /\ UNCHANGED <<heap, _AI_PREDICTION_CACHE, calls, classifierBuilds, trainRuns, fetchBuilds>>

\* line 199: return _classifier (the global is read again)
GicReturn(t) ==
    /\ pc[t] = "gic_return"
    /\ Goto(t, "classify", [frame[t] EXCEPT !.obj = _classifier])
    /\ UNCHANGED <<_classifier, heap, _AI_PREDICTION_CACHE, calls, classifierBuilds, trainRuns, fetchBuilds>>

\* backend.py:604-605: classifier.classify(message) reads idf and
\* intent_vectors of the instance the caller received.
Classify(t) ==
    /\ pc[t] = "classify"
    /\ Finish(t, [tag |-> "classifier", obj |-> frame[t].obj, saw |-> heap[frame[t].obj]])
    /\ UNCHANGED <<_classifier, heap, _AI_PREDICTION_CACHE, calls, classifierBuilds, trainRuns, fetchBuilds>>

(***************************************************************************)
(* _fetch_or_train_ai_model, backend.py:157-167.                           *)
(***************************************************************************)
\* lines 159-160: if the cache is filled, return it
FetchCheck(t) ==
    /\ pc[t] = "fetch_check"
    /\ IF _AI_PREDICTION_CACHE # NoBundle
       THEN Finish(t, [tag |-> "bundle", bundle |-> _AI_PREDICTION_CACHE, cached |-> TRUE])
       ELSE Goto(t, "cap_filter", frame[t])
    /\ UNCHANGED <<_classifier, heap, _AI_PREDICTION_CACHE, calls, classifierBuilds, trainRuns, fetchBuilds>>

(***************************************************************************)
(* compute_ai_predictions, rag_engine.py:178-246, called by                *)
(* _fetch_or_train_ai_model (backend.py:163) and by build_knowledge_base   *)
(* (rag_engine.py:149).                                                    *)
(***************************************************************************)
\* lines 184-212: too few shortlisted histories raise RuntimeError;
\* backend.py:166-167 re-raises it, rag_engine.py:151-152 swallows it.
CapFilter(t) ==
    /\ pc[t] = "cap_filter"
    /\ IF ctx[t].histories < MinHistories
       THEN IF op[t] = "fetch"
            THEN Finish(t, Raise("RuntimeError"))
            ELSE Goto(t, "kb_docs", frame[t])
       ELSE Goto(t, "cap_train", frame[t])
    /\ UNCHANGED <<_classifier, heap, _AI_PREDICTION_CACHE, calls, classifierBuilds, trainRuns, fetchBuilds>>

\* line 214: train_points_model; a non-numeric label raises ValueError
\* (ai_models.py:124), which neither caller catches.
CapTrain(t) ==
    /\ pc[t] = "cap_train"
    /\ trainRuns' = [trainRuns EXCEPT ![op[t]] = @ + 1]
    /\ IF ctx[t].label_ok
       THEN Goto(t, "cap_predict", [frame[t] EXCEPT !.model = TotalTrainRuns + 1])
       ELSE Finish(t, Raise("ValueError"))
    /\ UNCHANGED <<_classifier, heap, _AI_PREDICTION_CACHE, calls, classifierBuilds, fetchBuilds>>

\* line 215: predict_upcoming_points with the model just trained
CapPredict(t) ==
    /\ pc[t] = "cap_predict"
    /\ Goto(t, "cap_return", [frame[t] EXCEPT !.predictions = frame[t].model])
    /\ UNCHANGED <<_classifier, heap, _AI_PREDICTION_CACHE, calls, classifierBuilds, trainRuns, fetchBuilds>>

\* lines 239-246: the bundle is built whole by the return statement
CapReturn(t) ==
    /\ pc[t] = "cap_return"
    /\ Goto(t, IF op[t] = "fetch" THEN "fetch_store" ELSE "kb_docs",
            [frame[t] EXCEPT !.bundle =
                [model |-> frame[t].model, predictions |-> frame[t].predictions,
                 history_window |-> DEFAULT_HISTORY_WINDOW]])
    /\ fetchBuilds' = IF op[t] = "fetch" THEN fetchBuilds + 1 ELSE fetchBuilds
    /\ UNCHANGED <<_classifier, heap, _AI_PREDICTION_CACHE, calls, classifierBuilds, trainRuns>>

\* backend.py:164: _AI_PREDICTION_CACHE = bundle
FetchStore(t) ==
    /\ pc[t] = "fetch_store"
    /\ _AI_PREDICTION_CACHE' = frame[t].bundle
    /\ Goto(t, "fetch_return", frame[t])
    /\ UNCHANGED <<_classifier, heap, calls, classifierBuilds, trainRuns, fetchBuilds>>

\* backend.py:165: return bundle (the local)
FetchReturn(t) ==
    /\ pc[t] = "fetch_return"
    /\ Finish(t, [tag |-> "bundle", bundle |-> frame[t].bundle, cached |-> FALSE])
    /\ UNCHANGED <<_classifier, heap, _AI_PREDICTION_CACHE, calls, classifierBuilds, trainRuns, fetchBuilds>>

\* rag_engine.py:150-175: the corpus is built with the bundle of this call
\* (None when compute_ai_predictions raised RuntimeError).
KbDocs(t) ==
    /\ pc[t] = "kb_docs"
    /\ Finish(t, [tag |-> "kb", bundle |-> frame[t].bundle])
    /\ UNCHANGED <<_classifier, heap, _AI_PREDICTION_CACHE, calls, classifierBuilds, trainRuns, fetchBuilds>>

(***************************************************************************)
(* generate_ai_prediction_table, fpl_logic.py:623-665.                     *)
(***************************************************************************)
\* lines 647-662: fewer than 15 histories return a string payload
TabFilter(t) ==
    /\ pc[t] = "tab_filter"
    /\ IF ctx[t].histories < MinHistories
       THEN Finish(t, [tag |-> "string"])
       ELSE Goto(t, "tab_train", frame[t])
    /\ UNCHANGED <<_classifier, heap, _AI_PREDICTION_CACHE, calls, classifierBuilds, trainRuns, fetchBuilds>>

\* lines 664-665: a model is trained for this call and used for its table
TabTrain(t) ==
    /\ pc[t] = "tab_train"
    /\ trainRuns' = [trainRuns EXCEPT !["table"] = @ + 1]
    /\ Finish(t, IF ctx[t].label_ok
                 THEN [tag |-> "table", model |-> TotalTrainRuns + 1]
                 ELSE Raise("ValueError"))
    /\ UNCHANGED <<_classifier, heap, _AI_PREDICTION_CACHE, calls, classifierBuilds, fetchBuilds>>

Step(t) ==
    \/ \E kind \in EntryPoints, c \in Contexts : StartCall(t, kind, c)
    \/ GicCheck(t) \/ ClassifierInit(t) \/ FitIdf(t) \/ FitVectors(t)
    \/ GicStore(t) \/ GicReturn(t) \/ Classify(t)
    \/ FetchCheck(t) \/ CapFilter(t) \/ CapTrain(t) \/ CapPredict(t) \/ CapReturn(t)
    \/ FetchStore(t) \/ FetchReturn(t) \/ KbDocs(t)
    \/ TabFilter(t) \/ TabTrain(t)

Next == \E t \in Threads : Step(t)

Spec == Init /\ [][Next]_vars

\* The same program serving its requests one after another on one thread.
NextSeq == Step(1)

SpecSeq == Init /\ [][NextSeq]_vars

(***************************************************************************)
(* Helpers shared by the pure-function models.                             *)
(***************************************************************************)
Min(a, b) == IF a <= b THEN a ELSE b

Max(a, b) == IF a >= b THEN a ELSE b

\* seq[:n]
Take(seq, n) == SubSeq(seq, 1, Min(Max(n, 0), Len(seq)))

\* All sequences over S of length at most n.
SeqsUpTo(S, n) == UNION {[1 .. k -> S] : k \in 0 .. n}

\* A sequence given by a rule, as the list of its elements (each element is
\* computed once).
List(seq) == SubSeq(seq, 1, Len(seq))

\* [x] * n
Constant(n, x) == [j \in 1 .. n |-> x]

\* Mutant: an ascending sort read backwards; equal keys come out in the
\* reverse of their original order.
ReversedAscOrder(keys) ==
    LET n == Len(keys)
        Before(j, i) == keys[j] > keys[i] \/ (keys[j] = keys[i] /\ j > i)
        rank == List([i \in 1 .. n |-> Cardinality({j \in 1 .. n : Before(j, i)}) + 1])
    IN  [r \in 1 .. n |-> CHOOSE i \in 1 .. n : rank[i] = r]

\* list.sort(key=..., reverse=True) and sorted(..., reverse=True): the order
\* in which the indices of keys come out, largest key first, equal keys in
\* their original order (Python's sort is stable, also when reversed).
StableDescOrder(keys) ==
    LET n == Len(keys)
        Before(j, i) == keys[j] > keys[i] \/ (keys[j] = keys[i] /\ j < i)
        rank == List([i \in 1 .. n |-> Cardinality({j \in 1 .. n : Before(j, i)}) + 1])
    IN  [r \in 1 .. n |-> CHOOSE i \in 1 .. n : rank[i] = r]

(***************************************************************************)
(* Numbers.  A Python float is modelled as a fixed-point integer, FX       *)
(* units per 1.0; a division rounds toward zero.                           *)
(***************************************************************************)
FX == 1000

Abs(a) == IF a >= 0 THEN a ELSE -a

\* a / b on integers, rounded toward zero (b > 0)
Quot(a, b) == IF a >= 0 THEN a \div b ELSE -((-a) \div b)

\* x * y and x / y on fixed-point numbers
FxMul(x, y) == Quot(x * y, FX)

FxDiv(x, y) == IF y > 0 THEN Quot(x * FX, y) ELSE -Quot(x * FX, -y)

\* xs[1] + ... + xs[n]
RECURSIVE SumTo(_, _)
SumTo(xs, n) == IF n = 0 THEN 0 ELSE SumTo(xs, n - 1) + xs[n]

\* sum(xs)
SumSeq(xs) == SumTo(List(xs), Len(xs))

\* The largest r with r * r <= n, by bisection on [lo, hi].
RECURSIVE ISqrt(_, _, _)
ISqrt(n, lo, hi) ==
    IF lo >= hi THEN lo
    ELSE LET mid == (lo + hi + 1) \div 2
             low == mid * mid <= n
         IN  ISqrt(n, IF low THEN mid ELSE lo, IF low THEN hi ELSE mid - 1)

\* x ** 0.5 and math.sqrt(x) on a fixed-point number x >= 0
FxSqrt(x) == ISqrt(x * FX, 0, Min(x * FX, 46340))

(***************************************************************************)
(* Values of a match record's fields as the FPL API delivers them: a JSON  *)
(* number, a string (a sequence of characters), or null.                   *)
(***************************************************************************)
Num(n) == [t |-> "num", n |-> n, s |-> << >>]

Str(cs) == [t |-> "str", n |-> 0, s |-> cs]

PyNone == [t |-> "none", n |-> 0, s |-> << >>]

DigitChars == <<"0", "1", "2", "3", "4", "5", "6", "7", "8", "9">>

IsDigit(c) == \E d \in 1 .. 10 : DigitChars[d] = c

DigitVal(c) == (CHOOSE d \in 1 .. 10 : DigitChars[d] = c) - 1

\* The digits of cs read as a decimal integer.
RECURSIVE DigitsVal(_)
DigitsVal(cs) ==
    IF cs = << >> THEN 0 ELSE DigitsVal(SubSeq(cs, 1, Len(cs) - 1)) * 10 + DigitVal(cs[Len(cs)])

\* cs without a leading sign
Unsigned(cs) == IF cs # << >> /\ cs[1] \in {"-", "+"} THEN Tail(cs) ELSE cs

\* Whether float(cs) accepts the string: an optional sign, digits with at
\* most one point, at least one digit.
IsDecimal(cs) ==
    LET body == Unsigned(cs)
        dots == {i \in 1 .. Len(body) : body[i] = "."}
    IN  /\ Cardinality(dots) <= 1
        /\ \A i \in (1 .. Len(body)) \ dots : IsDigit(body[i])
        /\ Cardinality(dots) < Len(body)

\* float(cs) for an accepted string, in fixed point (three decimals kept)
DecimalVal(cs) ==
    LET body == Unsigned(cs)
        dots == {i \in 1 .. Len(body) : body[i] = "."}
        dot == IF dots = {} THEN Len(body) + 1 ELSE CHOOSE i \in dots : TRUE
        whole == SubSeq(body, 1, dot - 1)
        frac == SubSeq(body, dot + 1, Min(Len(body), dot + 3))
        scale == CASE Len(frac) = 0 -> 0 [] Len(frac) = 1 -> 100
                   [] Len(frac) = 2 -> 10 [] OTHER -> 1
        mag == DigitsVal(whole) * FX + DigitsVal(frac) * scale
    IN  IF cs # << >> /\ cs[1] = "-" THEN -mag ELSE mag

Ok(v) == [ok |-> TRUE, v |-> v, exc |-> "none"]

Err(exc) == [ok |-> FALSE, v |-> 0, exc |-> exc]

\* float(raw): the value, or the exception float() raises
PyFloat(raw) ==
    CASE raw.t = "num" -> Ok(raw.n * FX)
      [] raw.t = "str" -> IF IsDecimal(raw.s) THEN Ok(DecimalVal(raw.s)) ELSE Err("ValueError")
      [] raw.t = "none" -> Err("TypeError")

\* bool(raw): None, '' and 0 are falsy
Truthy(raw) ==
    CASE raw.t = "num" -> raw.n # 0
      [] raw.t = "str" -> raw.s # << >>
      [] raw.t = "none" -> FALSE

\* match.get(field, 0)
Get(match, field) == IF field \in DOMAIN match THEN match[field] ELSE Num(0)

(***************************************************************************)
(* ai_models.py                                                            *)
(***************************************************************************)
FEATURE_FIELDS ==
    <<"minutes", "total_points", "goals_scored", "assists", "clean_sheets",
      "bonus", "influence", "creativity", "threat", "ict_index">>

NumFeatures == Len(FEATURE_FIELDS)

LearningRate == 50     \* 0.05
Epochs == 400
L2 == 10               \* 0.01
FullMatch == 90

\* Mutant: a value float() rejects is entered as -1.
FloatOrSentinel(raw) == LET f == PyFloat(raw) IN IF f.ok THEN f.v ELSE -FX

\* try: float(raw) / except (ValueError, TypeError): 0.0
FloatOrZero(raw) == LET f == PyFloat(raw) IN IF f.ok THEN f.v ELSE 0

\* _summarise_window, lines 138-144: one field of one match as a float
FeatureValue(match, field) ==
    LET raw == Get(match, field)
    IN  FloatOrZero(IF raw.t = "none" \/ (raw.t = "str" /\ raw.s = << >>) THEN Num(0) ELSE raw)

\* _summarise_window, lines 150-154: total_points of one match as a float
PointsValue(match) ==
    LET raw == Get(match, "total_points")
    IN  FloatOrZero(IF Truthy(raw) THEN raw ELSE Num(0))

\* _summarise_window, lines 131-160: <<features, avg_points>>
_summarise_window(matches) ==
    LET n == Len(matches)
        mean(field) == IF n = 0 THEN 0
                       ELSE Quot(SumSeq([i \in 1 .. n |-> FeatureValue(matches[i], field)]), n)
        aggregated == List([j \in 1 .. NumFeatures |-> mean(FEATURE_FIELDS[j])])
        avg_points == IF n = 0 THEN 0
                      ELSE Quot(SumSeq([i \in 1 .. n |-> PointsValue(matches[i])]), n)
    IN  <<[aggregated EXCEPT ![1] = Quot(@, FullMatch)], avg_points>>

\* _normalise, lines 206-213
_normalise(features, means, stds) ==
    List([j \in 1 .. Min(Len(features), Min(Len(means), Len(stds))) |->
            IF stds[j] = 0 THEN 0 ELSE FxDiv(features[j] - means[j], stds[j])])

\* sum of weight * value over zip(weights, vector)
Dot(weights, vector) ==
    SumSeq([j \in 1 .. Min(Len(weights), Len(vector)) |-> FxMul(weights[j], vector[j])])

\* RegressionModel.predict, lines 27-32
ModelPredict(model, features) ==
    model.bias + Dot(model.weights, _normalise(features, model.feature_means, model.feature_stds))

\* Mutant: the weights are moved along gradients taken after the bias has
\* been updated.
EpochStepBiasFirst(normalised, targets, weights, bias) ==
    LET n == Len(normalised)
        error == List([i \in 1 .. n |-> (bias + Dot(weights, normalised[i])) - targets[i]])
        moved == bias - Quot(FxMul(LearningRate, SumSeq(error)), n)
        after == List([i \in 1 .. n |-> (moved + Dot(weights, normalised[i])) - targets[i]])
        grad_w(j) == SumSeq([i \in 1 .. n |-> FxMul(after[i], normalised[i][j])
                                               + FxMul(L2, weights[j])])
    IN  [weights |-> List([j \in 1 .. Len(weights) |->
                             weights[j] - Quot(FxMul(LearningRate, grad_w(j)), n)]),
         bias |-> moved]

\* _gradient_descent_fit, lines 186-201: one epoch, from (weights, bias)
EpochStep(normalised, targets, weights, bias) ==
    LET n == Len(normalised)
        error == List([i \in 1 .. n |-> (bias + Dot(weights, normalised[i])) - targets[i]])
        grad_b == SumSeq(error)
        grad_w(j) == SumSeq([i \in 1 .. n |-> FxMul(error[i], normalised[i][j])
                                               + FxMul(L2, weights[j])])
    IN  [weights |-> List([j \in 1 .. Len(weights) |->
                             weights[j] - Quot(FxMul(LearningRate, grad_w(j)), n)]),
         bias |-> bias - Quot(FxMul(LearningRate, grad_b), n)]

\* _gradient_descent_fit, lines 174-177: the mean of every column
ColumnMeans(features) ==
    List([j \in 1 .. Len(features[1]) |->
            Quot(SumSeq([i \in 1 .. Len(features) |-> features[i][j]]), Len(features))])

\* line 178: the sample variance of a column about mean_j
Variance(column, mean_j) ==
    Quot(SumSeq([i \in 1 .. Len(column) |-> FxMul(column[i] - mean_j, column[i] - mean_j)]),
         Max(Len(column) - 1, 1))

\* Mutant: the root of the variance is stored whatever it is.
StdUnguarded(variance) == FxSqrt(variance)

\* line 179: variance ** 0.5 if variance > 0 else 1.0
Std(variance) == IF variance > 0 THEN FxSqrt(variance) ELSE FX

ColumnStds(features, means) ==
    List([j \in 1 .. Len(means) |->
            Std(Variance(List([i \in 1 .. Len(features) |-> features[i][j]]), means[j]))])

\* lines 181-184: the normalised rows and the starting point of the descent
Normalised(features, means, stds) ==
    [means |-> means, stds |-> stds,
     normalised |-> List([i \in 1 .. Len(features) |-> _normalise(features[i], means, stds)]),
     weights |-> Constant(Len(features[1]), 0), bias |-> 0]

FitWithMeans(features, means) == Normalised(features, means, ColumnStds(features, means))

\* _gradient_descent_fit, lines 168-184
FitSetup(features) == FitWithMeans(features, ColumnMeans(features))

\* float(next_match.get('total_points', 0) or 0), line 124: no try around it
LabelOf(match) ==
    LET raw == Get(match, "total_points")
    IN  PyFloat(IF Truthy(raw) THEN raw ELSE Num(0))

\* _build_training_samples, lines 116-126, for one entry: a sample for each
\* idx in range(w, len(history)), in 1-based positions k = idx - w + 1
EntrySamples(history, w) ==
    IF Len(history) <= w THEN << >>
    ELSE [k \in 1 .. (Len(history) - w) |->
            [features |-> _summarise_window(SubSeq(history, k, k + w - 1))[1],
             label |-> LabelOf(history[k + w])]]

RECURSIVE Concat(_)
Concat(seqs) == IF seqs = << >> THEN << >> ELSE Head(seqs) \o Concat(Tail(seqs))

\* _build_training_samples, lines 111-128: the rows and targets, or the
\* exception of the first label float() rejects
_build_training_samples(player_histories, w) ==
    LET all == Concat([e \in 1 .. Len(player_histories) |->
                          EntrySamples(player_histories[e].history, w)])
        bad == {i \in 1 .. Len(all) : ~all[i].label.ok}
    IN  IF bad # {}
        THEN [phase |-> "raised", exc |-> all[CHOOSE i \in bad : \A j \in bad : i <= j].label.exc,
              rows |-> << >>, targets |-> << >>]
        ELSE [phase |-> "returned", exc |-> "none",
              rows |-> [i \in 1 .. Len(all) |-> all[i].features],
              targets |-> [i \in 1 .. Len(all) |-> all[i].label.v]]

\* Mutant: the prediction is emitted as computed.
ClampOff(predicted) == predicted

\* max(predicted, 0.0), line 85
Clamp(predicted) == Max(predicted, 0)

\* Mutant: an entry needs more than w matches to be predicted.
PredictableStrict(history, w) == Len(history) > w

\* line 78: entries with fewer than w matches are skipped
Predictable(history, w) == ~(Len(history) < w)

\* predict_upcoming_points, lines 65-90
predict_upcoming_points(model, player_histories, w) ==
    LET kept == SelectSeq(player_histories, LAMBDA e : Predictable(e.history, w))
        scored(e, sw) ==
            [player |-> e.player, predicted |-> Clamp(ModelPredict(model, sw[1])),
             avg_points |-> sw[2]]
        item(e) ==
            scored(e, _summarise_window(SubSeq(e.history, Len(e.history) - w + 1,
                                               Len(e.history))))
        predictions == List([i \in 1 .. Len(kept) |-> item(kept[i])])
        order == StableDescOrder(List([i \in 1 .. Len(kept) |-> predictions[i].predicted]))
    IN  List([r \in 1 .. Len(kept) |-> predictions[order[r]]])

(***************************************************************************)
(* Inputs of the ai_models functions.  A match is an element-summary       *)
(* history row: a function from field names to raw values.  The FPL API    *)
(* sends influence, creativity, threat and ict_index as strings.           *)
(* float() also accepts exponents, padding and the words nan and inf; no   *)
(* string used here is of those forms.                                     *)
(***************************************************************************)
MaxHist == 3         \* matches in a generated history
MaxPlayers == 2      \* entries in a generated player_histories
MaxWindow == 2       \* largest history_window of a generated input

\* a full match, every field numeric
MatchA ==
    [minutes |-> Num(90), total_points |-> Num(6), goals_scored |-> Num(1),
     assists |-> Num(0), clean_sheets |-> Num(1), bonus |-> Num(2),
     influence |-> Str(<<"3", ".", "5">>), creativity |-> Str(<<"1", "0", ".", "0">>),
     threat |-> Str(<<"2", "0", ".", "0">>), ict_index |-> Str(<<"6", ".", "5">>)]

\* a malformed row: null, empty, non-numeric and missing fields
MatchB ==
    [minutes |-> PyNone, total_points |-> Str(<<"n", "/", "a">>),
     goals_scored |-> Str(<< >>), bonus |-> Str(<<"x">>),
     influence |-> Str(<<"1", ".", "5">>), threat |-> Num(4)]

\* a substitute appearance whose total_points is null
MatchC ==
    [minutes |-> Num(45), total_points |-> PyNone, goals_scored |-> Num(0),
     assists |-> Num(1), clean_sheets |-> Num(0), bonus |-> Num(0),
     influence |-> Str(<<"0", ".", "5">>), creativity |-> Str(<<"2", ".", "5">>),
     threat |-> Str(<<"-", "1">>), ict_index |-> Str(<<"1", ".", "2", "5">>)]

\* a row whose total_points is a numeric string, the other fields missing
MatchD == [minutes |-> Num(60), total_points |-> Str(<<"2">>)]

\* the first n matches of a player whose rows repeat pattern
Career(pattern, n) == [m \in 1 .. n |-> pattern[((m - 1) % Len(pattern)) + 1]]

Careers == {<<MatchA, MatchB, MatchA, MatchC>>, <<MatchC, MatchD, MatchA, MatchB>>}

Entries(hs) == [e \in 1 .. Len(hs) |-> [player |-> e, history |-> hs[e]]]

\* the histories of the two careers after 0 .. MaxHist matches
HistoryPool == {Career(pattern, n) : pattern \in Careers, n \in 0 .. MaxHist}

\* 20 players with 8 matches each, history_window 5
Scenario20x8 ==
    [histories |-> Entries([e \in 1 .. 20 |->
                      [m \in 1 .. 8 |-> CASE (e + m) % 3 = 0 -> MatchA
                                          [] (e + m) % 3 = 1 -> MatchC
                                          [] OTHER -> MatchD]]),
     w |-> DEFAULT_HISTORY_WINDOW]

RankInputs ==
    {[histories |-> Entries(hs), w |-> w] :
        hs \in SeqsUpTo(HistoryPool, MaxPlayers), w \in 1 .. MaxWindow}
        \cup {Scenario20x8}

\* model dictionaries handed to predict_upcoming_points
ModelNeg ==
    [weights |-> Constant(NumFeatures, -500), bias |-> -2000,
     feature_means |-> Constant(NumFeatures, 0), feature_stds |-> Constant(NumFeatures, FX),
     samples |-> 4]

ModelMixed ==
    [weights |-> [j \in 1 .. NumFeatures |-> IF j % 2 = 0 THEN 300 ELSE -200], bias |-> 1000,
     feature_means |-> Constant(NumFeatures, 1000),
     feature_stds |-> [j \in 1 .. NumFeatures |-> IF j = 3 THEN 0 ELSE 2 * FX],
     samples |-> 4]

ModelFlat ==
    [weights |-> Constant(NumFeatures, 0), bias |-> 3000,
     feature_means |-> Constant(NumFeatures, 0), feature_stds |-> Constant(NumFeatures, FX),
     samples |-> 4]

ModelPool == {ModelNeg, ModelMixed, ModelFlat}

(***************************************************************************)
(* _build_training_samples and predict_upcoming_points applied to one      *)
(* input.                                                                  *)
(***************************************************************************)
RankInit ==
    /\ t_in \in RankInputs
    /\ smp = NoSamples
    /\ pred = NoPredictions
    /\ train = NoTraining

BuildSamples ==
    /\ smp.phase = "none"
    /\ smp' = _build_training_samples(t_in.histories, t_in.w)
    /\ UNCHANGED <<t_in, pred, train, cacheVars, kbVars, clfVars, fitVars, rtVars, ragVars, chatVars>>

Predict ==
    /\ smp.phase # "none"
    /\ pred.phase = "none"
    /\ \E model \in ModelPool :
          pred' = [phase |-> "returned", model |-> model,
                   predictions |-> predict_upcoming_points(model, t_in.histories, t_in.w)]
    /\ UNCHANGED <<t_in, smp, train, cacheVars, kbVars, clfVars, fitVars, rtVars, ragVars, chatVars>>

NextRank == BuildSamples \/ Predict

InitRank == CacheInit /\ KbIdle /\ RankInit /\ ClfIdle /\ FitIdle /\ RtIdle /\ RagIdle /\ ChatIdle

SpecRank == InitRank /\ [][NextRank]_vars

(***************************************************************************)
(* train_points_model, ai_models.py:45-62, one epoch of the descent per    *)
(* step.                                                                   *)
(***************************************************************************)
MaxTrainPlayers == 1     \* entries in a generated training input
MaxRuns == 2             \* calls of train_points_model on one input

TrainInputs ==
    {[histories |-> Entries(hs), w |-> w] :
        hs \in SeqsUpTo(HistoryPool, MaxTrainPlayers), w \in 1 .. MaxWindow}
        \cup {Scenario20x8}

TrainInit ==
    /\ t_in \in TrainInputs
    /\ smp = NoSamples
    /\ pred = NoPredictions
    /\ train = NoTraining

\* Mutant: a single sample is treated as none.
IsEmptyLoose(samples) == Len(samples) <= 1

\* not samples, line 57
IsEmpty(samples) == Len(samples) = 0

\* line 60: the locals of _gradient_descent_fit when its loop is entered
Fitting(fit, targets) ==
    [phase |-> "fitting", exc |-> "none", epoch |-> 0,
     normalised |-> fit.normalised, targets |-> targets,
     model |-> [weights |-> fit.weights, bias |-> fit.bias, feature_means |-> fit.means,
                feature_stds |-> fit.stds, samples |-> Len(fit.normalised)],
     previous |-> << >>]

\* lines 56-60 once _build_training_samples has come back
TrainOutcome(built) ==
    IF built.phase = "raised" THEN [NoTraining EXCEPT !.phase = "raised", !.exc = built.exc]
    ELSE IF IsEmpty(built.rows)
    THEN [NoTraining EXCEPT !.phase = "raised", !.exc = "RuntimeError"]
    ELSE Fitting(FitSetup(built.rows), built.targets)

\* Mutant: the rows, weights and bias of the call before are still there
\* when the next call starts (as with a list or a model kept at module level).
KeptFromBefore(started, previous) ==
    IF started.phase = "fitting" /\ previous # << >>
          /\ previous[Len(previous)].phase = "returned"
    THEN [started EXCEPT !.model.weights = previous[Len(previous)].model.weights,
                         !.model.bias = previous[Len(previous)].model.bias,
                         !.model.samples = @ + previous[Len(previous)].model.samples]
    ELSE started

\* What a call finds of the calls before it: train_points_model and its
\* helpers keep their rows (lines 112-113), weights and bias (lines 183-184)
\* in locals, so nothing.
CarriedOver(started, previous) == started

\* lines 56-58 and _gradient_descent_fit up to its loop (lines 168-184)
TrainStart ==
    /\ train.phase = "none"
    /\ train' = [CarriedOver(TrainOutcome(_build_training_samples(t_in.histories, t_in.w)),
                             train.previous)
                    EXCEPT !.previous = train.previous]
    /\ UNCHANGED <<t_in, smp, pred, cacheVars, kbVars, clfVars, fitVars, rtVars, ragVars, chatVars>>

\* one pass of the loop of lines 186-201
TrainEpoch ==
    /\ train.phase = "fitting"
    /\ train.epoch < Epochs
    /\ LET nxt == EpochStep(train.normalised, train.targets,
                            train.model.weights, train.model.bias)
       IN  train' = [train EXCEPT !.epoch = @ + 1, !.model.weights = nxt.weights,
                                  !.model.bias = nxt.bias]
    /\ UNCHANGED <<t_in, smp, pred, cacheVars, kbVars, clfVars, fitVars, rtVars, ragVars, chatVars>>

\* lines 203 and 61-62: the model as a dictionary
TrainReturn ==
    /\ train.phase = "fitting"
    /\ train.epoch = Epochs
    /\ train' = [train EXCEPT !.phase = "returned"]
    /\ UNCHANGED <<t_in, smp, pred, cacheVars, kbVars, clfVars, fitVars, rtVars, ragVars, chatVars>>

NextTrain == TrainStart \/ TrainEpoch \/ TrainReturn

\* The caller keeps the outcome of the call (the model dictionary or the
\* exception) and calls train_points_model again with the same arguments.
TrainAgain ==
    /\ train.phase \in {"returned", "raised"}
    /\ Len(train.previous) + 1 < MaxRuns
    /\ train' = [NoTraining EXCEPT !.previous =
                    Append(train.previous,
                           [phase |-> train.phase, exc |-> train.exc, model |-> train.model])]
    /\ UNCHANGED <<t_in, smp, pred, cacheVars, kbVars, clfVars, fitVars, rtVars, ragVars, chatVars>>

NextRetrain == TrainStart \/ TrainEpoch \/ TrainReturn \/ TrainAgain

InitTrain == CacheInit /\ KbIdle /\ TrainInit /\ ClfIdle /\ FitIdle /\ RtIdle /\ RagIdle /\ ChatIdle

SpecTrain == InitTrain /\ [][NextTrain]_vars

SpecRetrain == InitTrain /\ [][NextRetrain]_vars

(***************************************************************************)
(* Binary floating point.  Fixed-point sums are exact, a float sum is      *)
(* rounded after every addition, and _gradient_descent_fit branches on     *)
(* the outcome (variance > 0, line 179).  The statistics of a feature      *)
(* column are therefore also computed as the interpreter computes them:    *)
(* every operation gives the representable number nearest to the exact     *)
(* result, ties to the even significand.  A float is m * 2^e with          *)
(* 2^(Precision-1) <= |m| < 2^Precision, or zero.  The significand keeps   *)
(* Precision bits where a Python float keeps 53; 53 - Precision is a       *)
(* multiple of 4, the period of the binary expansion of the tenths, so     *)
(* decimal tenths round in the same direction as they do in a double.      *)
(***************************************************************************)
Precision == 13

FZero == [m |-> 0, e |-> 0]

Pow2(k) == 2 ^ k

\* the number of binary digits of a >= 0
RECURSIVE BitLength(_)
BitLength(a) == IF a = 0 THEN 0 ELSE 1 + BitLength(a \div 2)

\* a / 2^sh to the nearest integer, ties to even (sh >= 1)
RoundShift(a, sh) ==
    IF \/ a % Pow2(sh) > Pow2(sh - 1)
       \/ (a % Pow2(sh) = Pow2(sh - 1) /\ (a \div Pow2(sh)) % 2 = 1)
    THEN (a \div Pow2(sh)) + 1
    ELSE a \div Pow2(sh)

\* sign * q * 2^e, where rounding may have carried q up to 2^Precision
Carried(sign, q, e) ==
    IF q = Pow2(Precision) THEN [m |-> sign * Pow2(Precision - 1), e |-> e + 1]
    ELSE [m |-> sign * q, e |-> e]

\* the float nearest to sign * a * 2^e, for a > 0 of k binary digits
RoundBits(sign, a, e, k) ==
    IF k <= Precision
    THEN [m |-> sign * a * Pow2(Precision - k), e |-> e - (Precision - k)]
    ELSE Carried(sign, RoundShift(a, k - Precision), e + (k - Precision))

\* the float nearest to m * 2^e
Round(m, e) ==
    IF m = 0 THEN FZero
    ELSE RoundBits(IF m < 0 THEN -1 ELSE 1, Abs(m), e, BitLength(Abs(m)))

\* float(n) for an int n
FromInt(n) == Round(n, 0)

\* hi + lo for hi.e >= lo.e: a term below a quarter of the last place of hi
\* cannot change the rounded sum
AddAligned(hi, lo) ==
    IF hi.e - lo.e > Precision + 2 THEN hi
    ELSE Round(hi.m * Pow2(hi.e - lo.e) + lo.m, lo.e)

\* a + b
FAdd(a, b) ==
    IF a.m = 0 THEN b
    ELSE IF b.m = 0 THEN a
    ELSE IF a.e >= b.e THEN AddAligned(a, b)
    ELSE AddAligned(b, a)

\* a - b
FSub(a, b) == FAdd(a, [b EXCEPT !.m = -@])

\* a * b
FMul(a, b) == Round(a.m * b.m, a.e + b.e)

\* the quotient bits of n / d followed by a bit that is 1 when a remainder
\* is left
QuotientSticky(n, d) == 2 * (n \div d) + (IF n % d = 0 THEN 0 ELSE 1)

\* a / b for b # 0
FDiv(a, b) ==
    IF a.m = 0 THEN FZero
    ELSE Round((IF (a.m < 0) = (b.m < 0) THEN 1 ELSE -1)
                   * QuotientSticky(Abs(a.m) * Pow2(Precision + 2), Abs(b.m)),
               a.e - b.e - Precision - 3)

\* the root bits of m followed by a bit that is 1 when m is not a square
RootSticky(m, r) == 2 * r + (IF r * r = m THEN 0 ELSE 1)

\* the root of m * 2^e for e even
RootEven(m, e) == Round(RootSticky(m, ISqrt(m, 0, 46340)), (e \div 2) - 1)

\* a ** 0.5 for a >= 0
FSqrt(a) ==
    IF a.m = 0 THEN FZero
    ELSE IF (a.e - (Precision + 2)) % 2 = 0
    THEN RootEven(a.m * Pow2(Precision + 2), a.e - (Precision + 2))
    ELSE RootEven(a.m * Pow2(Precision + 3), a.e - (Precision + 3))

\* sum(xs): from 0, left to right, rounded after every addition
RECURSIVE FSumTo(_, _)
FSumTo(xs, n) == IF n = 0 THEN FZero ELSE FAdd(FSumTo(xs, n - 1), xs[n])

FSum(xs) == FSumTo(List(xs), Len(xs))

\* float('num/den') for a decimal literal: the float nearest to its value
Decimal(num, den) == FDiv(FromInt(num), FromInt(den))

(***************************************************************************)
(* _gradient_descent_fit, ai_models.py:174-181, for one feature column j   *)
(* of the training rows, and _normalise, ai_models.py:206-213, for one     *)
(* feature, in binary floating point.                                      *)
(***************************************************************************)
MaxRows == 3     \* training rows in a generated column

\* values a feature takes: 0.1, 0.7, 0.5, 3.5
ValuePool == {Decimal(1, 10), Decimal(7, 10), Decimal(1, 2), Decimal(7, 2)}

ColumnPool == UNION {[1 .. n -> ValuePool] : n \in 1 .. MaxRows}

\* line 176: sum(column) / n_samples
FMean(column) == FDiv(FSum(column), FromInt(Len(column)))

\* line 178: sum((value - mean_j) ** 2 for value in column) / max(n_samples - 1, 1)
FVariance(column, mean_j) ==
    FDiv(FSum([i \in 1 .. Len(column) |->
                  FMul(FSub(column[i], mean_j), FSub(column[i], mean_j))]),
         FromInt(Max(Len(column) - 1, 1)))

\* line 179: variance ** 0.5 if variance > 0 else 1.0
FStd(variance) == IF variance.m > 0 THEN FSqrt(variance) ELSE FromInt(1)

\* _normalise, lines 209-212, for one feature
FNormalise(value, mean, std) == IF std.m = 0 THEN FZero ELSE FDiv(FSub(value, mean), std)

FitInit ==
    col_fit \in {[phase |-> "column", column |-> column, mean |-> FZero, std |-> FZero,
                  normalised |-> << >>, value |-> FZero, stored_std |-> FZero,
                  vector |-> FZero] : column \in ColumnPool}

\* lines 175-177
FitMean ==
    /\ col_fit.phase = "column"
    /\ col_fit' = [col_fit EXCEPT !.phase = "mean", !.mean = FMean(col_fit.column)]
    /\ UNCHANGED <<cacheVars, kbVars, mlVars, clfVars, rtVars, ragVars, chatVars>>

\* lines 178-179
FitStd ==
    /\ col_fit.phase = "mean"
    /\ col_fit' = [col_fit EXCEPT !.phase = "std",
                                  !.std = FStd(FVariance(col_fit.column, col_fit.mean))]
    /\ UNCHANGED <<cacheVars, kbVars, mlVars, clfVars, rtVars, ragVars, chatVars>>

\* line 181: the column of the normalised rows
FitNormalise ==
    /\ col_fit.phase = "std"
    /\ col_fit' = [col_fit EXCEPT !.phase = "normalised",
                      !.normalised = List([i \in 1 .. Len(col_fit.column) |->
                          FNormalise(col_fit.column[i], col_fit.mean, col_fit.std)])]
    /\ UNCHANGED <<cacheVars, kbVars, mlVars, clfVars, rtVars, ragVars, chatVars>>

\* RegressionModel.predict, line 28: _normalise on a model dictionary whose
\* feature_stds entry is the fitted one or a stored 0
FitPredict ==
    /\ col_fit.phase = "normalised"
    /\ \E value \in ValuePool, std \in {col_fit.std, FZero} :
          col_fit' = [col_fit EXCEPT !.phase = "predicted", !.value = value,
                                     !.stored_std = std,
                                     !.vector = FNormalise(value, col_fit.mean, std)]
    /\ UNCHANGED <<cacheVars, kbVars, mlVars, clfVars, rtVars, ragVars, chatVars>>

NextFit == FitMean \/ FitStd \/ FitNormalise \/ FitPredict

InitFit == CacheInit /\ KbIdle /\ MlIdle /\ ClfIdle /\ FitInit /\ RtIdle /\ RagIdle /\ ChatIdle

SpecFit == InitFit /\ [][NextFit]_vars

(***************************************************************************)
(* intent_classifier.py.  A text is a sequence of characters, a token a    *)
(* sequence of lower-case characters, a dict a sequence of its items in    *)
(* insertion order.                                                        *)
(***************************************************************************)
_DEFAULT_INTENTS ==
    <<
    [intent |-> "my-team-summary",
     examples |-> <<
         <<"s", "h", "o", "w", " ", "m", "y", " ", "t", "e", "a", "m">>,
         <<"d", "i", "s", "p", "l", "a", "y", " ", "m", "y", " ", "s", "q", "u", "a", "d">>,
         <<"w", "h", "a", "t", " ", "i", "s", " ", "m", "y", " ", "l", "i", "n", "e", "u", "p">>,
         <<"g", "i", "v", "e", " ", "m", "e", " ", "s", "q", "u", "a", "d", " ", "s", "u", "m", "m", "a", "r", "y">>>>],
    [intent |-> "ai-team-performance",
     examples |-> <<
         <<"h", "o", "w", " ", "w", "i", "l", "l", " ", "m", "y", " ", "t", "e", "a", "m", " ", "p", "e", "r", "f", "o", "r", "m", " ", "n", "e", "x", "t", " ", "w", "e", "e", "k">>,
         <<"p", "r", "e", "d", "i", "c", "t", " ", "m", "y", " ", "s", "q", "u", "a", "d", " ", "s", "c", "o", "r", "e">>,
         <<"f", "o", "r", "e", "c", "a", "s", "t", " ", "m", "y", " ", "t", "e", "a", "m", " ", "p", "o", "i", "n", "t", "s">>,
         <<"h", "o", "w", " ", "d", "i", "d", " ", "i", " ", "s", "c", "o", "r", "e", " ", "t", "h", "i", "s", " ", "w", "e", "e", "k">>,
         <<"h", "o", "w", " ", "d", "i", "d", " ", "i", " ", "d", "o", " ", "t", "h", "i", "s", " ", "w", "e", "e", "k">>>>],
    [intent |-> "smart-captaincy",
     examples |-> <<
         <<"w", "h", "o", " ", "s", "h", "o", "u", "l", "d", " ", "i", " ", "c", "a", "p", "t", "a", "i", "n">>,
         <<"c", "a", "p", "t", "a", "i", "n", " ", "s", "u", "g", "g", "e", "s", "t", "i", "o", "n">>,
         <<"b", "e", "s", "t", " ", "c", "a", "p", "t", "a", "i", "n", " ", "p", "i", "c", "k">>>>],
    [intent |-> "current-captain",
     examples |-> <<
         <<"w", "h", "o", " ", "i", "s", " ", "m", "y", " ", "c", "a", "p", "t", "a", "i", "n">>,
         <<"c", "u", "r", "r", "e", "n", "t", " ", "c", "a", "p", "t", "a", "i", "n">>,
         <<"w", "h", "o", " ", "i", "s", " ", "c", "a", "p", "t", "a", "i", "n", " ", "r", "i", "g", "h", "t", " ", "n", "o", "w">>>>],
    [intent |-> "chip-advice",
     examples |-> <<
         <<"w", "h", "e", "n", " ", "s", "h", "o", "u", "l", "d", " ", "i", " ", "u", "s", "e", " ", "m", "y", " ", "c", "h", "i", "p", "s">>,
         <<"c", "h", "i", "p", " ", "s", "t", "r", "a", "t", "e", "g", "y">>,
         <<"b", "e", "n", "c", "h", " ", "b", "o", "o", "s", "t", " ", "o", "r", " ", "t", "r", "i", "p", "l", "e", " ", "c", "a", "p", "t", "a", "i", "n">>,
         <<"s", "h", "o", "u", "l", "d", " ", "i", " ", "f", "r", "e", "e", " ", "h", "i", "t">>,
         <<"w", "i", "l", "d", "c", "a", "r", "d", " ", "a", "d", "v", "i", "c", "e">>>>],
    [intent |-> "transfer-suggester",
     examples |-> <<
         <<"r", "e", "c", "o", "m", "m", "e", "n", "d", " ", "a", " ", "t", "r", "a", "n", "s", "f", "e", "r">>,
         <<"w", "h", "o", " ", "s", "h", "o", "u", "l", "d", " ", "i", " ", "s", "e", "l", "l">>,
         <<"t", "r", "a", "n", "s", "f", "e", "r", " ", "a", "d", "v", "i", "c", "e">>>>],
    [intent |-> "injury-risk",
     examples |-> <<
         <<"a", "n", "y", " ", "i", "n", "j", "u", "r", "y", " ", "r", "i", "s", "k", "s">>,
         <<"w", "h", "o", " ", "i", "s", " ", "f", "l", "a", "g", "g", "e", "d">>,
         <<"p", "l", "a", "y", "e", "r", "s", " ", "w", "i", "t", "h", " ", "i", "n", "j", "u", "r", "y">>>>],
    [intent |-> "ai-predictions",
     examples |-> <<
         <<"a", "i", " ", "t", "o", "p", " ", "p", "e", "r", "f", "o", "r", "m", "e", "r", "s">>,
         <<"w", "h", "o", " ", "w", "i", "l", "l", " ", "s", "c", "o", "r", "e", " ", "t", "h", "e", " ", "m", "o", "s", "t">>,
         <<"b", "e", "s", "t", " ", "p", "l", "a", "y", "e", "r", "s", " ", "n", "e", "x", "t", " ", "w", "e", "e", "k">>>>],
    [intent |-> "league-head-to-head",
     examples |-> <<
         <<"w", "i", "l", "l", " ", "i", " ", "b", "e", "a", "t">>,
         <<"h", "e", "a", "d", " ", "t", "o", " ", "h", "e", "a", "d">>,
         <<"v", "e", "r", "s", "u", "s", " ", "i", "n", " ", "m", "y", " ", "l", "e", "a", "g", "u", "e">>>>],
    [intent |-> "league-current",
     examples |-> <<
         <<"c", "u", "r", "r", "e", "n", "t", " ", "l", "e", "a", "g", "u", "e", " ", "s", "t", "a", "n", "d", "i", "n", "g", "s">>,
         <<"s", "h", "o", "w", " ", "t", "a", "b", "l", "e", " ", "n", "o", "w">>,
         <<"l", "e", "a", "g", "u", "e", " ", "p", "o", "s", "i", "t", "i", "o", "n", " ", "r", "i", "g", "h", "t", " ", "n", "o", "w">>>>],
    [intent |-> "league-predictions",
     examples |-> <<
         <<"p", "r", "e", "d", "i", "c", "t", " ", "m", "y", " ", "l", "e", "a", "g", "u", "e">>,
         <<"l", "e", "a", "g", "u", "e", " ", "s", "t", "a", "n", "d", "i", "n", "g", "s", " ", "f", "o", "r", "e", "c", "a", "s", "t">>>>],
    [intent |-> "differential-hunter",
     examples |-> <<
         <<"s", "h", "o", "w", " ", "m", "e", " ", "d", "i", "f", "f", "e", "r", "e", "n", "t", "i", "a", "l", "s">>,
         <<"l", "o", "w", " ", "o", "w", "n", "e", "d", " ", "p", "l", "a", "y", "e", "r", "s">>>>],
    [intent |-> "predicted-top-performers",
     examples |-> <<
         <<"p", "r", "e", "d", "i", "c", "t", " ", "t", "o", "p", " ", "p", "e", "r", "f", "o", "r", "m", "e", "r", "s">>,
         <<"t", "o", "p", " ", "s", "c", "o", "r", "e", "r", "s", " ", "n", "e", "x", "t", " ", "w", "e", "e", "k">>>>],
    [intent |-> "dream-team",
     examples |-> <<
         <<"b", "u", "i", "l", "d", " ", "d", "r", "e", "a", "m", " ", "t", "e", "a", "m">>,
         <<"w", "i", "l", "d", "c", "a", "r", "d", " ", "s", "q", "u", "a", "d">>>>],
    [intent |-> "quadrant-analysis",
     examples |-> <<
         <<"f", "o", "r", "m", " ", "v", "s", " ", "f", "i", "x", "t", "u", "r", "e">>,
         <<"q", "u", "a", "d", "r", "a", "n", "t", " ", "a", "n", "a", "l", "y", "s", "i", "s">>>>]
    >>

LowerCase ==
    <<"a", "b", "c", "d", "e", "f", "g", "h", "i", "j", "k", "l", "m",
      "n", "o", "p", "q", "r", "s", "t", "u", "v", "w", "x", "y", "z">>

UpperCase ==
    <<"A", "B", "C", "D", "E", "F", "G", "H", "I", "J", "K", "L", "M",
      "N", "O", "P", "Q", "R", "S", "T", "U", "V", "W", "X", "Y", "Z">>

IsUpper(c) == \E i \in 1 .. Len(UpperCase) : UpperCase[i] = c

\* _TOKEN_PATTERN, line 89: the class [a-zA-Z0-9']
IsTokenChar(c) ==
    \/ \E i \in 1 .. Len(LowerCase) : LowerCase[i] = c
    \/ IsUpper(c)
    \/ IsDigit(c)
    \/ c = "'"

\* str.lower() on one character
ToLower(c) == IF IsUpper(c) THEN LowerCase[CHOOSE i \in 1 .. Len(UpperCase) : UpperCase[i] = c] ELSE c

\* The last position of the run of token characters that starts at i.
RunEnd(text, i) ==
    CHOOSE j \in i .. Len(text) :
        /\ \A k \in i .. j : IsTokenChar(text[k])
        /\ j = Len(text) \/ ~IsTokenChar(text[j + 1])

\* findall from position i on: the maximal runs, lower-cased
RECURSIVE TokensFrom(_, _)
RECURSIVE TokenThen(_, _, _)
TokensFrom(text, i) ==
    IF i > Len(text) THEN << >>
    ELSE IF ~IsTokenChar(text[i]) THEN TokensFrom(text, i + 1)
    ELSE TokenThen(text, i, RunEnd(text, i))

TokenThen(text, i, j) ==
    <<List([k \in 1 .. (j - i + 1) |-> ToLower(text[i + k - 1])])>> \o TokensFrom(text, j + 1)

\* _tokenize, lines 92-93
_tokenize(text) == TokensFrom(text, 1)

\* The positions of the first occurrence of each element of seq.
Firsts(seq) ==
    SelectSeq(List([i \in 1 .. Len(seq) |-> i]),
              LAMBDA i : \A j \in 1 .. (i - 1) : seq[j] # seq[i])

\* the keys of Counter(tokens) or of a dict filled in the order of seq
Distinct(seq) == SubSeq([k \in 1 .. Len(Firsts(seq)) |-> seq[Firsts(seq)[k]]], 1, Len(Firsts(seq)))

\* Counter(tokens): the items, in the order the tokens first occur
Counter(tokens) ==
    List([k \in 1 .. Len(Distinct(tokens)) |->
            [token |-> Distinct(tokens)[k],
             count |-> Cardinality({j \in 1 .. Len(tokens) : tokens[j] = Distinct(tokens)[k]})]])

LN2 == 693     \* ln 2

\* b doubled while the result stays at most a
RECURSIVE Doubled(_, _)
Doubled(a, b) == IF a >= 2 * b THEN Doubled(a, 2 * b) ELSE b

\* the number of those doublings
RECURSIVE Doublings(_, _)
Doublings(a, b) == IF a >= 2 * b THEN 1 + Doublings(a, 2 * b) ELSE 0

\* 2 * atanh(z) by its series, z2 = z * z, for 0 <= z <= 1/3
TwiceAtanh(z, z2) ==
    2 * (z + Quot(FxMul(z, z2), 3) + Quot(FxMul(FxMul(z, z2), z2), 5)
           + Quot(FxMul(FxMul(FxMul(z, z2), z2), z2), 7))

\* ln(a / b) for a ratio in [1, 2)
LnNear(a, b) == TwiceAtanh(Quot((a - b) * FX, a + b),
                           FxMul(Quot((a - b) * FX, a + b), Quot((a - b) * FX, a + b)))

\* math.log(a / b) for integers a >= b > 0, to about three decimals
FxLn(a, b) == Doublings(a, b) * LN2 + LnNear(a, Doubled(a, b))

\* x or 1.0
OrOne(x) == IF x = 0 THEN FX ELSE x

\* lines 113-119: the examples of one intent that have tokens, labelled
DocsOf(entry) ==
    SelectSeq(List([i \in 1 .. Len(entry.examples) |->
                      [tokens |-> _tokenize(entry.examples[i]), label |-> entry.intent]]),
              LAMBDA d : d.tokens # << >>)

\* lines 110-119: documents zipped with labels
Documents(intent_examples) ==
    Concat(List([k \in 1 .. Len(intent_examples) |-> DocsOf(intent_examples[k])]))

Vocabulary(documents) ==
    UNION {{documents[i].tokens[j] : j \in 1 .. Len(documents[i].tokens)} :
              i \in 1 .. Len(documents)}

\* lines 124-127: the number of documents that hold the token
DocFreq(documents, token) ==
    Cardinality({i \in 1 .. Len(documents) :
                    \E j \in 1 .. Len(documents[i].tokens) : documents[i].tokens[j] = token})

\* lines 129-133: math.log((total_docs + 1) / (freq + 1)) + 1.0
Idf(documents) ==
    [token \in Vocabulary(documents) |->
        FxLn(Len(documents) + 1, DocFreq(documents, token) + 1) + FX]

\* count * idf[token] for the items of a Counter
Weighted(tf, idf) ==
    List([k \in 1 .. Len(tf) |-> [token |-> tf[k].token, weight |-> tf[k].count * idf[tf[k].token]]])

\* math.sqrt(sum of weight squared) or 1.0
Norm(vec) == OrOne(FxSqrt(SumSeq([k \in 1 .. Len(vec) |-> FxMul(vec[k].weight, vec[k].weight)])))

Scaled(vec, norm) ==
    List([k \in 1 .. Len(vec) |-> [token |-> vec[k].token, weight |-> FxDiv(vec[k].weight, norm)]])

\* lines 138-143: the weights one document adds to its intent
DocVector(tokens, idf) == Scaled(Weighted(Counter(tokens), idf), Norm(Weighted(Counter(tokens), idf)))

\* vec.get(token, 0.0)
WeightIn(vec, token) ==
    IF \E k \in 1 .. Len(vec) : vec[k].token = token
    THEN vec[CHOOSE k \in 1 .. Len(vec) : vec[k].token = token].weight
    ELSE 0

\* lines 143-148: the summed weights of the intent's documents over their number
CentroidFrom(vectors, tokens) ==
    List([k \in 1 .. Len(tokens) |->
            [token |-> tokens[k],
             weight |-> Quot(SumSeq([i \in 1 .. Len(vectors) |-> WeightIn(vectors[i], tokens[k])]),
                             Max(Len(vectors), 1))]])

CentroidOf(mine, idf) ==
    CentroidFrom(List([i \in 1 .. Len(mine) |-> DocVector(mine[i].tokens, idf)]),
                 Distinct(Concat(List([i \in 1 .. Len(mine) |-> mine[i].tokens]))))

Labelled(documents, label) == SelectSeq(documents, LAMBDA d : d.label = label)

LabelsOf(documents) == Distinct(List([i \in 1 .. Len(documents) |-> documents[i].label]))

\* lines 135-148: self.intent_vectors, in the order the intents are first seen
IntentVectors(documents, idf) ==
    List([k \in 1 .. Len(LabelsOf(documents)) |->
            [intent |-> LabelsOf(documents)[k],
             centroid |-> CentroidOf(Labelled(documents, LabelsOf(documents)[k]), idf)]])

\* Mutant: numerator and denominator are smoothed by one.
CosineSmoothed(vec_a, vec_b) ==
    FxDiv(SumSeq([k \in 1 .. Len(vec_a) |->
                     FxMul(vec_a[k].weight, WeightIn(vec_b, vec_a[k].token))]) + FX,
          FxMul(Norm(vec_a), Norm(vec_b)) + FX)

\* Mutant: the centroid's length is left out of the denominator.
CosineOverQueryNorm(vec_a, vec_b) ==
    FxDiv(SumSeq([k \in 1 .. Len(vec_a) |->
                     FxMul(vec_a[k].weight, WeightIn(vec_b, vec_a[k].token))]),
          Norm(vec_a))

\* _cosine_similarity, lines 183-189
_cosine_similarity(vec_a, vec_b) ==
    FxDiv(SumSeq([k \in 1 .. Len(vec_a) |->
                     FxMul(vec_a[k].weight, WeightIn(vec_b, vec_a[k].token))]),
          FxMul(Norm(vec_a), Norm(vec_b)))

Threshold == 300     \* 0.3

\* lines 158-161: the counted tokens the idf table knows
Known(tf, idf) == SelectSeq(tf, LAMBDA item : item.token \in DOMAIN idf)

\* lines 155-167: the normalised query vector
QueryVector(tokens, idf) ==
    Scaled(Weighted(Known(Counter(tokens), idf), idf),
           Norm(Weighted(Known(Counter(tokens), idf), idf)))

\* lines 172-173: the similarity to every centroid, in dict order
Scores(vec, intent_vectors) ==
    List([k \in 1 .. Len(intent_vectors) |-> _cosine_similarity(vec, intent_vectors[k].centroid)])

\* lines 169-176: best_score after the loop
BestScore(scores) ==
    CHOOSE m \in {scores[k] : k \in 1 .. Len(scores)} \cup {0} :
        \A k \in 1 .. Len(scores) : scores[k] <= m

\* lines 169-176: best_intent after the loop, "" for None
BestIntent(scores, intent_vectors, best_score) ==
    IF best_score > 0
    THEN intent_vectors[CHOOSE k \in 1 .. Len(scores) :
                            /\ scores[k] = best_score
                            /\ \A j \in 1 .. (k - 1) : scores[j] < best_score].intent
    ELSE ""

\* Mutant: the best intent is returned whatever its similarity.
DecideAlways(best_intent, best_score) ==
    [found |-> best_intent # "", intent |-> best_intent, score |-> best_score]

\* lines 178-180
Decide(best_intent, best_score) ==
    IF best_score >= Threshold
    THEN [found |-> best_intent # "", intent |-> best_intent, score |-> best_score]
    ELSE [found |-> FALSE, intent |-> "", score |-> best_score]

Ranked(scores, intent_vectors) ==
    Decide(BestIntent(scores, intent_vectors, BestScore(scores)), BestScore(scores))

\* IntentClassifier.classify, lines 150-180
classify(self, text) ==
    IF _tokenize(text) = << >> THEN [found |-> FALSE, intent |-> "", score |-> 0]
    ELSE Ranked(Scores(QueryVector(_tokenize(text), self.idf), self.intent_vectors),
                self.intent_vectors)

(***************************************************************************)
(* Example sets handed to IntentClassifier() and texts handed to classify. *)
(***************************************************************************)
MaxQueryWords == 2     \* words in a generated query

Space == <<" ">>

Foo == <<"f", "o", "o">>

Bar == <<"b", "a", "r">>

Baz == <<"b", "a", "z">>

Qux == <<"q", "u", "x">>

Zip == <<"z", "i", "p">>

\* one intent of a single example, one of two
SetSingle ==
    <<[intent |-> "a", examples |-> <<Foo \o Space \o Bar>>],
      [intent |-> "b", examples |-> <<Baz \o Space \o Qux, Baz \o Space \o Zip>>]>>

\* an example of intent a that lies nearer to the centroid of b
SetSteal ==
    <<[intent |-> "a", examples |-> <<Foo, Bar, Baz>>],
      [intent |-> "b", examples |-> <<Foo \o Space \o Foo \o Space \o Zip>>]>>

\* no example has a token
SetBlank == <<[intent |-> "a", examples |-> <<<< >>, <<"?", "!">>>>]>>

\* the same tokens under two intents, and an intent without tokens
SetDup ==
    <<[intent |-> "a", examples |-> <<Foo \o Space \o Bar>>],
      [intent |-> "b", examples |-> <<<<"F", "o", "o", ",", " ">> \o Bar>>],
      [intent |-> "c", examples |-> <<<<".", ".", ".">>>>]>>

\* << >> stands for None and for {}: both select _DEFAULT_INTENTS
ExampleArgs == {<< >>, SetSingle, SetSteal, SetBlank, SetDup}

WordPool ==
    {Foo, <<"B", "A", "R">>, <<"x", "y", "z", "z", "y">>, <<"?", "!">>,
     <<"c", "a", "p", "t", "a", "i", "n">>, <<"t", "e", "a", "m">>,
     <<"p", "o", "i", "n", "t", "s">>, <<"d", "o">>}

RECURSIVE Join(_)
Join(words) ==
    IF words = << >> THEN << >>
    ELSE IF Len(words) = 1 THEN words[1]
    ELSE words[1] \o Space \o Join(Tail(words))

QueryPool == {Join(words) : words \in SeqsUpTo(WordPool, MaxQueryWords)}

ExamplesOf(intent_examples) ==
    UNION {{intent_examples[k].examples[i] : i \in 1 .. Len(intent_examples[k].examples)} :
              k \in 1 .. Len(intent_examples)}

(***************************************************************************)
(* IntentClassifier(intent_examples) and one classify call.                *)
(***************************************************************************)
ClassifyInit ==
    /\ clf_arg \in ExampleArgs
    /\ clf = NoClassifier
    /\ reply = NoReply

\* __init__, lines 103-106
IcInit ==
    /\ clf.phase = "none"
    /\ clf' = [NoClassifier EXCEPT !.phase = "init",
                                   !.intent_examples = IF clf_arg = << >> THEN _DEFAULT_INTENTS
                                                       ELSE clf_arg]
    /\ UNCHANGED <<clf_arg, reply, cacheVars, kbVars, mlVars, fitVars, rtVars, ragVars, chatVars>>

\* _fit, lines 109-133
IcFitIdf ==
    /\ clf.phase = "init"
    /\ clf' = IF Documents(clf.intent_examples) = << >>
              THEN [clf EXCEPT !.phase = "raised"]
              ELSE [clf EXCEPT !.phase = "idf",
                               !.documents = Documents(clf.intent_examples),
                               !.idf = Idf(Documents(clf.intent_examples))]
    /\ UNCHANGED <<clf_arg, reply, cacheVars, kbVars, mlVars, fitVars, rtVars, ragVars, chatVars>>

\* _fit, lines 135-148
IcFitVectors ==
    /\ clf.phase = "idf"
    /\ clf' = [clf EXCEPT !.phase = "fitted",
                          !.intent_vectors = IntentVectors(clf.documents, clf.idf)]
    /\ UNCHANGED <<clf_arg, reply, cacheVars, kbVars, mlVars, fitVars, rtVars, ragVars, chatVars>>

\* classifier.classify(text) on the built classifier
ClassifyText ==
    /\ clf.phase = "fitted"
    /\ reply.phase = "none"
    /\ \E text \in ExamplesOf(clf.intent_examples) \cup QueryPool :
          reply' = [phase |-> "returned", text |-> text] @@ classify(clf, text)
    /\ UNCHANGED <<clf_arg, clf, cacheVars, kbVars, mlVars, fitVars, rtVars, ragVars, chatVars>>

NextClassify == IcInit \/ IcFitIdf \/ IcFitVectors \/ ClassifyText

InitClassify == CacheInit /\ KbIdle /\ MlIdle /\ ClassifyInit /\ FitIdle /\ RtIdle /\ RagIdle /\ ChatIdle

SpecClassify == InitClassify /\ [][NextClassify]_vars

(***************************************************************************)
(* build_knowledge_base, rag_engine.py:56-175.                             *)
(***************************************************************************)
MaxRoster == 2       \* players in bootstrap['elements']
MaxFailures == 1     \* sub-builders whose data cannot be obtained in one build

DefaultPlayerLimit == 200   \* rag_engine.py:56

Clubs == {1, 2}      \* ids of bootstrap['teams']; a player's 'team' is one
SquadIds == {7}      \* FPL entry ids a caller may pass as team_id
LeagueIds == {9}     \* league ids a caller may pass as league_id

\* status and minutes of a player: available and played, available and
\* not played, injured
Availability == {<<"a", 90>>, <<"a", 0>>, <<"i", 90>>}

PlayerKinds == [team : Clubs, avail : Availability, form : {1, 2}]

\* bootstrap['elements'] with ids 1, 2, ... in roster order
Rosters ==
    {[i \in 1 .. Len(ks) |-> [id |-> i, team |-> ks[i].team, status |-> ks[i].avail[1],
                              minutes |-> ks[i].avail[2], form |-> ks[i].form]] :
        ks \in SeqsUpTo(PlayerKinds, MaxRoster)}

\* The external fetches behind the sub-builders that may fail.
SubBuilders == {"transfer", "picks", "chip", "h2h", "league"}

KbInputs ==
    [roster : Rosters,
     player_limit : {1, DefaultPlayerLimit},
     team_id : SquadIds \cup {None},
     league_id : LeagueIds \cup {None},
     ctx : Contexts,
     fails : {f \in SUBSET SubBuilders : Cardinality(f) <= MaxFailures}]

\* Mutant: a player who has not played is eligible too.
EligibleUnplayed(p) == p.status = "a"

\* lines 69-72 and 184-187
Eligible(p) == p.status = "a" /\ p.minutes > 0

\* lines 69-75: eligible players, highest form first, cut to player_limit
ActivePlayers(in) ==
    LET active == SelectSeq(in.roster, Eligible)
        order == StableDescOrder([i \in 1 .. Len(active) |-> active[i].form])
    IN  Take([r \in 1 .. Len(active) |-> active[order[r]]], in.player_limit)

Doc(type, key, for) == [doc_type |-> type, key |-> key, built_for |-> for]

\* lines 79-129: one document per shortlisted player
PlayerDocs(players) == [i \in 1 .. Len(players) |-> Doc("player", players[i].id, None)]

\* lines 131-144: one document per team of bootstrap['teams']
TeamDocs == <<Doc("team", 1, None), Doc("team", 2, None)>>

\* The value of the name team_id after the player loop: line 82 assigns the
\* player's club to it in every iteration, over the caller's argument.
TeamIdAfterLoop(arg, players) ==
    IF players = << >> THEN arg ELSE players[Len(players)].team

\* compute_ai_predictions as called at line 149: "ok", or the exception
\* it raises (lines 189-190, 211-212; ai_models.py:124).
AiOutcome(in) ==
    IF SelectSeq(in.roster, Eligible) = << >> THEN "RuntimeError"
    ELSE IF in.ctx.histories < MinHistories THEN "RuntimeError"
    ELSE IF ~in.ctx.label_ok THEN "ValueError"
    ELSE "ok"

\* lines 249-289: one document per predicted player and the overview
AiDocs(players) ==
    [i \in 1 .. Len(players) |-> Doc("ai_player", players[i].id, None)]
        \o <<Doc("ai_overview", None, None)>>

\* lines 154-164: the documents about the squad named by team_id
SquadDocs(in, team_id, has_bundle) ==
    IF team_id = None THEN << >>
    ELSE (IF "transfer" \in in.fails THEN << >> ELSE <<Doc("transfer", None, team_id)>>)
      \o (IF has_bundle /\ "picks" \notin in.fails
          THEN <<Doc("team_projection", None, team_id)>> ELSE << >>)
      \o (IF "chip" \in in.fails THEN << >> ELSE <<Doc("chip", None, team_id)>>)

\* lines 166-172: the documents about the league named by league_id
LeagueDocs(in) ==
    IF in.league_id = None THEN << >>
    ELSE (IF "h2h" \in in.fails THEN << >> ELSE <<Doc("head_to_head", None, in.league_id)>>)
      \o (IF "league" \in in.fails THEN << >> ELSE <<Doc("league_current", None, in.league_id)>>)

\* The result of build_knowledge_base(context, player_limit, team_id=...,
\* league_id=...): the KnowledgeBase, or the exception that leaves it.
build_knowledge_base(in) ==
    LET players == ActivePlayers(in)
        ai == AiOutcome(in)
        team_id == TeamIdAfterLoop(in.team_id, players)
    IN  IF ai = "ValueError"
        THEN [phase |-> "raised", exc |-> "ValueError", documents |-> << >>,
              extras |-> [ai_bundle |-> FALSE, team_id |-> None, league_id |-> None]]
        ELSE [phase |-> "returned", exc |-> "none",
              documents |-> PlayerDocs(players) \o TeamDocs
                            \o (IF ai = "ok" THEN AiDocs(players) ELSE << >>)
                            \o SquadDocs(in, team_id, ai = "ok")
                            \o LeagueDocs(in),
              extras |-> [ai_bundle |-> ai = "ok", team_id |-> team_id,
                          league_id |-> in.league_id]]

KbInit ==
    /\ kb_in \in KbInputs
    /\ kb_out = [phase |-> "none"]

BuildKnowledgeBase ==
    /\ kb_out.phase = "none"
    /\ kb_out' = build_knowledge_base(kb_in)
    /\ UNCHANGED <<kb_in, cacheVars, mlVars, clfVars, fitVars, rtVars, ragVars, chatVars>>

NextKB == BuildKnowledgeBase

InitKB == CacheInit /\ KbInit /\ MlIdle /\ ClfIdle /\ FitIdle /\ RtIdle /\ RagIdle /\ ChatIdle

SpecKB == InitKB /\ [][NextKB]_vars

(***************************************************************************)
(* KnowledgeBase and retrieve, rag_engine.py:34-42 and 539-562.  The       *)
(* tokenizer of rag_engine.py (lines 18-22) is the one of                  *)
(* intent_classifier.py, letter for letter.  A document is known by its    *)
(* position in the corpus.                                                 *)
(***************************************************************************)
MaxDocs == 3     \* documents in a generated corpus
MaxTopK == 2     \* largest top_k a caller passes, besides the default

DefaultTopK == 5

\* Document(id, title, text, metadata, tokens=Counter(_tokenize(text))), as
\* build_knowledge_base makes it for a team (rag_engine.py:137-143)
Document(id, text) ==
    [id |-> id, title |-> <<"Team outlook: ", ToString(id)>>, text |-> text,
     metadata |-> [doc_type |-> "team", team_id |-> id],
     tokens |-> Counter(_tokenize(text))]

\* token in tokens
Holds(tokens, token) == \E k \in 1 .. Len(tokens) : tokens[k].token = token

\* tokens[token] for a token the Counter holds
CountIn(tokens, token) == tokens[CHOOSE k \in 1 .. Len(tokens) : tokens[k].token = token].count

\* the keys of all the documents' Counters
CorpusTerms(documents) ==
    UNION {{documents[i].tokens[k].token : k \in 1 .. Len(documents[i].tokens)} :
              i \in 1 .. Len(documents)}

\* KnowledgeBase.__init__, lines 35-42
KnowledgeBase(documents) ==
    [documents |-> documents,
     total_docs |-> Len(documents),
     doc_freq |-> [token \in CorpusTerms(documents) |->
                      Cardinality({i \in 1 .. Len(documents) :
                                      Holds(documents[i].tokens, token)})]]

\* line 557: math.log((kb.total_docs + 1) / (kb.doc_freq[token] + 1)) + 1
RetrievalIdf(kb, token) == FxLn(kb.total_docs + 1, kb.doc_freq[token] + 1) + FX

\* Mutant: a term counts once however often the document holds it.
TermScoreOnce(doc, item, kb) ==
    IF ~Holds(doc.tokens, item.token) THEN 0
    ELSE item.count * RetrievalIdf(kb, item.token)

\* lines 553-558: what one query term adds to the score of doc
TermScore(doc, item, kb) ==
    IF ~Holds(doc.tokens, item.token) THEN 0
    ELSE item.count * CountIn(doc.tokens, item.token) * RetrievalIdf(kb, item.token)

\* lines 551-558: the score of doc
DocScore(doc, query_counter, kb) ==
    SumSeq([k \in 1 .. Len(query_counter) |-> TermScore(doc, query_counter[k], kb)])

\* Mutant: a document that scores nothing is kept.
KeptAnyway(score) == score >= 0

\* line 559: if score > 0
Kept(score) == score > 0

\* lines 548-560: scored_docs, in corpus order
ScoredDocs(query_counter, kb) ==
    SelectSeq(List([i \in 1 .. Len(kb.documents) |->
                      [score |-> DocScore(kb.documents[i], query_counter, kb),
                       doc |-> kb.documents[i].id]]),
              LAMBDA item : Kept(item.score))

\* Mutant: the sort is an ascending one read backwards.
SortedUnstable(scored_docs) ==
    [r \in 1 .. Len(scored_docs) |->
        scored_docs[ReversedAscOrder(List([i \in 1 .. Len(scored_docs) |->
                                              scored_docs[i].score]))[r]]]

\* line 561: scored_docs.sort(key=lambda item: item[0], reverse=True)
Sorted(scored_docs) ==
    [r \in 1 .. Len(scored_docs) |->
        scored_docs[StableDescOrder(List([i \in 1 .. Len(scored_docs) |->
                                             scored_docs[i].score]))[r]]]

\* line 562: [doc for _, doc in scored_docs[:top_k]]
TopDocs(scored_docs, top_k) ==
    List([r \in 1 .. Len(Take(scored_docs, top_k)) |-> scored_docs[r].doc])

Foo2 == Foo \o Space \o Foo

Bar2 == Bar \o Space \o Bar

\* texts of documents: foo / foo bar / foo foo bar bar / baz / bar baz
DocTexts ==
    {Foo, Foo \o Space \o Bar, Foo2 \o Space \o Bar2, Baz, Bar \o Space \o Baz}

\* queries: no token / foo bar / Foo, foo! / qux
RetrievalQueries ==
    {<<"?">>, Foo \o Space \o Bar, <<"F", "o", "o", ",", " ">> \o Foo \o <<"!">>, Qux}

RetrieveInputs ==
    [phase : {"asked"},
     texts : SeqsUpTo(DocTexts, MaxDocs),
     query : RetrievalQueries,
     top_k : (0 .. MaxTopK) \cup {DefaultTopK}]

NoRetrieval == [phase |-> "none"]

RetrieveInit ==
    /\ rt_in \in RetrieveInputs
    /\ rt_out = NoRetrieval

(***************************************************************************)
(* generate_answer, rag_engine.py:565-627.  A str is a sequence of pieces, *)
(* each piece a string; a text that is cut or split is a sequence of       *)
(* characters.  A dict is a record, d.get(key, default) is Get.            *)
(***************************************************************************)
NewLine == <<"\n">>

GetOr(dict, key, default) == IF key \in DOMAIN dict THEN dict[key] ELSE default

\* separator.join(strs)
RECURSIVE JoinWith(_, _)
JoinWith(separator, strs) ==
    IF strs = << >> THEN << >>
    ELSE IF Len(strs) = 1 THEN strs[1]
    ELSE strs[1] \o separator \o JoinWith(separator, Tail(strs))

\* f"{x:.2f}" of a fixed-point number; a tie is rounded away from zero (the
\* interpreter rounds the binary value, which is never a tie in print)
Fixed2(x) ==
    LET c == (Abs(x) + 5) \div 10
    IN  (IF x < 0 THEN <<"-">> ELSE << >>)
        \o <<ToString(c \div 100), ".", ToString((c % 100) \div 10), ToString(c % 10)>>

\* f"{x:.1f}"
Fixed1(x) ==
    LET c == (Abs(x) + 50) \div 100
    IN  (IF x < 0 THEN <<"-">> ELSE << >>) \o <<ToString(c \div 10), ".", ToString(c % 10)>>

\* text.splitlines(), for texts whose only line boundary is "\n"
RECURSIVE SplitLines(_)
SplitLines(text) ==
    IF text = << >> THEN << >>
    ELSE IF \A k \in 1 .. Len(text) : text[k] # "\n" THEN <<text>>
    ELSE LET k == CHOOSE j \in 1 .. Len(text) :
                      text[j] = "\n" /\ \A i \in 1 .. j - 1 : text[i] # "\n"
         IN  <<SubSeq(text, 1, k - 1)>> \o SplitLines(SubSeq(text, k + 1, Len(text)))

HasNewLine(text) == \E k \in 1 .. Len(text) : text[k] = "\n"

\* line 609: doc.text.splitlines()[1] is evaluated and the list is shorter
RaisesIndexError(doc) ==
    /\ GetOr(doc.metadata, "doc_type", "") = "chip"
    /\ HasNewLine(doc.text)
    /\ Len(SplitLines(doc.text)) < 2

\* ', '.join(d['name'] for d in details[:3])
Names(details) == JoinWith(<<", ">>, List([k \in 1 .. Len(Take(details, 3)) |-> details[k].name]))

\* lines 598-599: the summary of the first three league results
ResultsSummary(results) ==
    JoinWith(<<", ">>, List([k \in 1 .. Len(Take(results, 3)) |->
                 results[k].manager \o <<" ">> \o Fixed1(results[k].predicted_score)]))

\* lines 602-603: the summary of the first three standings rows
StandingsSummary(rows) ==
    JoinWith(<<", ">>, List([k \in 1 .. Len(Take(rows, 3)) |->
                 <<"#", ToString(rows[k].rank), " ">> \o rows[k].player_name
                     \o <<" ", ToString(rows[k].total), " pts">>]))

\* lines 579-611: the bullet of one document, before the note
BulletOf(n, doc, meta, doc_type) ==
    IF doc_type = "player"
    THEN n \o doc.title \o <<": form ">> \o meta.form \o <<", total points ", ToString(meta.total_points),
              ", next ">> \o meta.fixture \o <<". Model prediction ">> \o Fixed2(meta.prediction) \o <<" pts.">>
    ELSE IF doc_type = "ai_player"
    THEN n \o <<"AI favours ">> \o doc.title \o <<" with ">> \o Fixed2(meta.predicted) \o <<" pts (avg ">>
           \o Fixed2(meta.avg_points) \o <<", form ">> \o meta.form \o <<").">>
    ELSE IF doc_type = "ai_overview"
    THEN n \o doc.text
    ELSE IF doc_type = "transfer"
    THEN n \o <<"Transfer insight: ">> \o Take(doc.text, 300) \o <<"...">>
    ELSE IF doc_type = "team_projection"
    THEN n \o <<"Squad projection: ">> \o Fixed2(meta.predicted_total) \o <<" pts next GW; ",
              "key starters include ">> \o Names(meta.starters) \o <<".">>
           \o (IF GetOr(meta, "bench", << >>) # << >>
               THEN <<" Bench depth: ">> \o Names(meta.bench) \o <<".">> ELSE << >>)
    ELSE IF doc_type = "head_to_head"
    THEN IF ResultsSummary(GetOr(meta, "results", << >>)) # << >>
         THEN n \o <<"League projection: ">> \o ResultsSummary(meta.results)
         ELSE n \o doc.title
    ELSE IF doc_type = "league_current"
    THEN IF StandingsSummary(GetOr(meta, "standings", << >>)) # << >>
         THEN n \o <<"Current league standings: ">> \o StandingsSummary(meta.standings)
         ELSE n \o doc.title
    ELSE IF doc_type = "chip"
    THEN n \o <<"Chip overview: ">>
           \o (IF HasNewLine(doc.text) THEN SplitLines(doc.text)[2] ELSE Take(doc.text, 200))
    ELSE n \o doc.title \o <<": ">> \o Take(doc.text, 250) \o <<"...">>

\* lines 575-617: the bullets of the documents, each with its note
Bullets(documents) ==
    List([i \in 1 .. Len(documents) |->
            BulletOf(<<ToString(i), ". ">>, documents[i], documents[i].metadata,
                     GetOr(documents[i].metadata, "doc_type", ""))
                \o (IF GetOr(documents[i].metadata, "note", << >>) # << >>
                    THEN <<" ">> \o documents[i].metadata.note ELSE << >>)])

\* Mutant: a document is cited once for every document of its type seen so far.
CitationsPerType(documents) ==
    Concat(List([i \in 1 .. Len(documents) |->
        [k \in 1 .. Cardinality({j \in 1 .. i :
              documents[j].metadata.doc_type = documents[i].metadata.doc_type}) |->
            [id |-> documents[i].id, title |-> documents[i].title]]]))

\* lines 618-621: one record per document
Citations(documents) ==
    List([i \in 1 .. Len(documents) |-> [id |-> documents[i].id, title |-> documents[i].title]])

NothingFound ==
    <<"I couldn't find anything relevant. Try being more specific about players or teams.">>

\* Mutant: the placeholder answer cites the query.
NothingFoundCited == [phase |-> "returned", lines |-> << >>, text |-> NothingFound,
                      citations |-> <<[id |-> "query", title |-> NothingFound]>>]

\* lines 566-570
NothingFoundAnswer == [phase |-> "returned", lines |-> << >>, text |-> NothingFound,
                       citations |-> << >>]

\* generate_answer(query, documents): the dict returned and the list lines it
\* was joined from, or the exception raised
generate_answer(documents) ==
    IF documents = << >> THEN NothingFoundAnswer
    ELSE IF \E i \in 1 .. Len(documents) : RaisesIndexError(documents[i])
    THEN [phase |-> "raised", exc |-> "IndexError"]
    ELSE [phase |-> "returned",
          lines |-> <<<<"Here's what I found:">>>> \o Bullets(documents),
          text |-> JoinWith(NewLine, <<<<"Here's what I found:">>>> \o Bullets(documents)),
          citations |-> Citations(documents)]

\* generate_answer has been applied to documents
Answered(documents) ==
    [phase |-> "done", documents |-> documents, result |-> generate_answer(documents)]

\* KnowledgeBase(documents), as at rag_engine.py:175
KbConstruct ==
    /\ rt_out.phase = "none"
    /\ rt_out' = [phase |-> "kb",
                  kb |-> KnowledgeBase(List([i \in 1 .. Len(rt_in.texts) |->
                                                Document(i, rt_in.texts[i])])),
                  scored_docs |-> << >>, documents |-> << >>]
    /\ UNCHANGED <<rt_in, cacheVars, kbVars, mlVars, clfVars, fitVars, ragVars, chatVars>>

\* retrieve, lines 540-560: the early returns and the scoring loop
RetrieveScore ==
    /\ rt_out.phase = "kb"
    /\ rt_out' = IF rt_out.kb.total_docs = 0 \/ _tokenize(rt_in.query) = << >>
                 THEN [rt_out EXCEPT !.phase = "returned"]
                 ELSE [rt_out EXCEPT !.phase = "scored",
                          !.scored_docs = ScoredDocs(Counter(_tokenize(rt_in.query)), rt_out.kb)]
    /\ UNCHANGED <<rt_in, cacheVars, kbVars, mlVars, clfVars, fitVars, ragVars, chatVars>>

\* retrieve, lines 561-562
RetrieveRank ==
    /\ rt_out.phase = "scored"
    /\ rt_out' = [rt_out EXCEPT !.phase = "returned",
                                !.scored_docs = Sorted(rt_out.scored_docs),
                                !.documents = TopDocs(Sorted(rt_out.scored_docs), rt_in.top_k)]
    /\ UNCHANGED <<rt_in, cacheVars, kbVars, mlVars, clfVars, fitVars, ragVars, chatVars>>

\* chat, backend.py:733: generate_answer(message, docs) on what retrieve returned
Compose ==
    /\ rt_out.phase = "returned"
    /\ rt_out' = [rt_out EXCEPT !.phase = "answered"]
    /\ answer' = Answered(List([r \in 1 .. Len(rt_out.documents) |->
                                 rt_out.kb.documents[rt_out.documents[r]]]))
    /\ UNCHANGED <<rt_in, proj, cacheVars, kbVars, mlVars, clfVars, fitVars, chatVars>>

NextRetrieve == KbConstruct \/ RetrieveScore \/ RetrieveRank \/ Compose

InitRetrieve == CacheInit /\ KbIdle /\ MlIdle /\ ClfIdle /\ FitIdle /\ RetrieveInit /\ RagIdle /\ ChatIdle

SpecRetrieve == InitRetrieve /\ [][NextRetrieve]_vars

(***************************************************************************)
(* generate_answer applied to documents as the builders of rag_engine.py   *)
(* make them, one or two of every doc_type.                                *)
(***************************************************************************)
MaxAnswerDocs == 2   \* documents handed to generate_answer

Detail(name) == [name |-> <<name>>]

PlayerDoc(n, form, prediction) ==
    [id |-> <<"player-", ToString(n)>>, title |-> <<"Salah (Liverpool)">>, text |-> Foo,
     metadata |-> [doc_type |-> "player", form |-> <<form>>, total_points |-> 120,
                   fixture |-> <<"faces Everton (home)">>, prediction |-> prediction]]

ProjectionDoc(bench) ==
    [id |-> <<"team-projection">>, title |-> <<"Squad projection GW 7">>,
     text |-> Foo \o NewLine \o Bar,
     metadata |-> [doc_type |-> "team_projection", predicted_total |-> 61250,
                   starters |-> <<Detail("Salah"), Detail("Saka"), Detail("Rice"), Detail("Raya")>>,
                   bench |-> bench]]

HeadToHeadDoc(results) ==
    [id |-> <<"league-head-to-head">>, title |-> <<"Upcoming league predictions">>,
     text |-> Foo \o NewLine \o Baz,
     metadata |-> [doc_type |-> "head_to_head", results |-> results]]

ChipDoc(text) ==
    [id |-> <<"chip-advice">>, title |-> <<"Chip strategy advice">>, text |-> text,
     metadata |-> [doc_type |-> "chip"]]

DocPool ==
    {PlayerDoc(1, "5.3", 4250), PlayerDoc(2, "0.0", 0),
     [id |-> <<"team-1">>, title |-> <<"Team outlook: Arsenal">>, text |-> Foo \o Space \o Bar,
      metadata |-> [doc_type |-> "team", team_id |-> 1]],
     [id |-> <<"ai-player-1">>, title |-> <<"AI prediction: Salah">>, text |-> Foo,
      metadata |-> [doc_type |-> "ai_player", predicted |-> 6120, avg_points |-> -500,
                    form |-> <<"5.3">>]],
     [id |-> <<"ai-overview">>, title |-> <<"AI Top Performer Overview">>, text |-> Foo2,
      metadata |-> [doc_type |-> "ai_overview"]],
     [id |-> <<"transfer-suggestion">>, title |-> <<"Recommended transfer">>,
      text |-> Foo \o NewLine \o Bar, metadata |-> [doc_type |-> "transfer"]],
     ProjectionDoc(<<Detail("Pope")>>), ProjectionDoc(<< >>),
     HeadToHeadDoc(<<[rank |-> 1, manager |-> <<"Ann Lee">>, predicted_score |-> 61500]>>),
     HeadToHeadDoc(<< >>),
     [id |-> <<"league-current-standings">>, title |-> <<"Current league standings">>,
      text |-> Bar,
      metadata |-> [doc_type |-> "league_current",
                    standings |-> <<[rank |-> 1, player_name |-> <<"Ann Lee">>, total |-> 900]>>]],
     \* get_chip_advice_string, fpl_logic.py:533-606: one line, or a title,
     \* an empty line and the advice
     ChipDoc(Foo \o Space \o Bar), ChipDoc(Bar \o NewLine \o NewLine \o Foo \o NewLine \o Baz)}

\* ranked lists of documents with different ids
RankedLists ==
    {ds \in SeqsUpTo(DocPool, MaxAnswerDocs) :
        \A i, j \in 1 .. Len(ds) : i # j => ds[i].id # ds[j].id}

AnswerInit ==
    /\ answer \in [phase : {"asked"}, documents : RankedLists]
    /\ proj = [phase |-> "none"]

GenerateAnswer ==
    /\ answer.phase = "asked"
    /\ answer' = Answered(answer.documents)
    /\ UNCHANGED <<proj, cacheVars, kbVars, mlVars, clfVars, fitVars, rtVars, chatVars>>

NextAnswer == GenerateAnswer

InitAnswer == CacheInit /\ KbIdle /\ MlIdle /\ ClfIdle /\ FitIdle /\ RtIdle /\ AnswerInit /\ ChatIdle

SpecAnswer == InitAnswer /\ [][NextAnswer]_vars

(***************************************************************************)
(* compute_team_projection, rag_engine.py:292-345.  A pick is a function   *)
(* from its keys to values; prediction_map and the heuristic predictions   *)
(* of fpl_logic.get_predictions are functions from player ids.  The        *)
(* name, team and position of a detail are lookups by player id and are    *)
(* left out.                                                               *)
(***************************************************************************)
MaxPicks == 3     \* picks in a generated squad

\* Mutant: a multiplier of zero counts as starting.
StartsFromZero(multiplier) == multiplier >= 0

\* multiplier > 0, line 334
Starts(multiplier) == multiplier > 0

\* lines 316-317: base_entry['predicted'] if base_entry else
\* fallback_predictions.get(player_id, 0.0); an entry of prediction_map is
\* a dict with keys, so it counts as true whenever it is there
PredictedFor(prediction_map, fallback_predictions, player_id) ==
    IF player_id \in DOMAIN prediction_map
    THEN prediction_map[player_id].predicted
    ELSE GetOr(fallback_predictions, player_id, 0)

\* lines 313-332
DetailOf(pick, prediction_map, fallback_predictions) ==
    [player_id |-> pick.element,
     predicted |-> PredictedFor(prediction_map, fallback_predictions, pick.element),
     multiplier |-> GetOr(pick, "multiplier", 1),
     is_captain |-> GetOr(pick, "is_captain", FALSE),
     is_vice |-> GetOr(pick, "is_vice_captain", FALSE)]

\* lines 334-338: one pass of the loop
Placed(sofar, detail) ==
    IF Starts(detail.multiplier)
    THEN [sofar EXCEPT !.predicted_total = @ + detail.predicted * detail.multiplier,
                       !.starters = Append(@, detail)]
    ELSE [sofar EXCEPT !.bench = Append(@, detail)]

\* lines 308-338: the loop over picks['picks']
RECURSIVE ProjectionOver(_, _, _, _)
ProjectionOver(picks, prediction_map, fallback_predictions, sofar) ==
    IF picks = << >> THEN sofar
    ELSE ProjectionOver(Tail(picks), prediction_map, fallback_predictions,
                        Placed(sofar, DetailOf(Head(picks), prediction_map,
                                               fallback_predictions)))

\* compute_team_projection, lines 292-345; squad.fetched is FALSE when
\* get_team_picks raised
compute_team_projection(squad, ai_bundle, fallback_predictions, gameweek) ==
    IF ~squad.fetched THEN [phase |-> "returned", projection |-> "None"]
    ELSE [phase |-> "returned", projection |-> "dict", gameweek |-> gameweek]
             @@ ProjectionOver(squad.picks, GetOr(ai_bundle, "prediction_map", << >>),
                               fallback_predictions,
                               [predicted_total |-> 0, starters |-> << >>, bench |-> << >>])

\* players 1 and 4 have a model prediction, that of player 4 being 0.0
PredictionMap == (1 :> [predicted |-> 4500]) @@ (4 :> [predicted |-> 0])

\* players 1, 2 and 4 have a heuristic prediction
FallbackPredictions == (1 :> 2000) @@ (2 :> 3250) @@ (4 :> 5000)

ProjectedPlayers == 1 .. 4

\* benched, starting, captain, and a pick without a multiplier
PickPool ==
    {[element |-> e, multiplier |-> 0, is_captain |-> FALSE, is_vice_captain |-> FALSE] :
        e \in ProjectedPlayers}
    \cup {[element |-> e, multiplier |-> 1, is_captain |-> FALSE, is_vice_captain |-> TRUE] :
        e \in ProjectedPlayers}
    \cup {[element |-> e, multiplier |-> 2, is_captain |-> TRUE, is_vice_captain |-> FALSE] :
        e \in ProjectedPlayers}
    \cup {[element |-> e] : e \in ProjectedPlayers}

\* what get_team_picks gave: the picks, or an exception
Squads ==
    {[fetched |-> TRUE, picks |-> picks] : picks \in SeqsUpTo(PickPool, MaxPicks)}
        \cup {[fetched |-> FALSE, picks |-> << >>]}

\* an ai_bundle with prediction_map, and one without the key
Bundles == {[prediction_map |-> PredictionMap], [trained_samples |-> 0]}

ProjectionInit ==
    /\ answer = [phase |-> "none"]
    /\ proj \in [phase : {"called"}, squad : Squads, ai_bundle : Bundles, gameweek : {7}]

ProjectSquad ==
    /\ proj.phase = "called"
    /\ proj' = [squad |-> proj.squad, ai_bundle |-> proj.ai_bundle]
                  @@ compute_team_projection(proj.squad, proj.ai_bundle,
                                             FallbackPredictions, proj.gameweek)
    /\ UNCHANGED <<answer, cacheVars, kbVars, mlVars, clfVars, fitVars, rtVars, chatVars>>

NextProjection == ProjectSquad

InitProjection == CacheInit /\ KbIdle /\ MlIdle /\ ClfIdle /\ FitIdle /\ RtIdle /\ ProjectionInit /\ ChatIdle

SpecProjection == InitProjection /\ [][NextProjection]_vars

(***************************************************************************)
(* The chat handler, backend.py:559-755.  The message is a sequence of     *)
(* characters; a feature id or an intent that is None is the empty string. *)
(***************************************************************************)
\* str.lower()
Lower(text) == List([k \in 1 .. Len(text) |-> ToLower(text[k])])

\* word in text
Contains(text, word) ==
    \E i \in 1 .. Len(text) - Len(word) + 1 : SubSeq(text, i, i + Len(word) - 1) = word

\* any(word in text for word in words)
AnyOf(text, words) == \E word \in words : Contains(text, word)

IsSpaceChar(c) == c \in {" ", "\t", "\n"}

\* the class \w over the characters of the messages
IsWordChar(c) == (IsTokenChar(c) /\ c # "'") \/ c = "_"

\* str.strip(chars)
RECURSIVE StripOf(_, _)
StripOf(text, chars) ==
    IF text = << >> THEN << >>
    ELSE IF Head(text) \in chars THEN StripOf(Tail(text), chars)
    ELSE IF text[Len(text)] \in chars THEN StripOf(SubSeq(text, 1, Len(text) - 1), chars)
    ELSE text

\* str.strip()
Strip(text) == StripOf(text, {" ", "\t", "\n"})

\* len(text.split())
WordCount(text) ==
    Cardinality({i \in 1 .. Len(text) : ~IsSpaceChar(text[i]) /\ (i = 1 \/ IsSpaceChar(text[i - 1]))})

\* lines 651-652: the message greets
Greets(lower) == AnyOf(lower, {<<"h", "i">>, <<"h", "e", "l", "l", "o">>, <<"h", "e", "y">>, <<"y", "o">>}) /\ WordCount(lower) <= 3

\* \b(next|this) week\b matches at position i
WeekAt(text, i) ==
    /\ i + 8 <= Len(text)
    /\ Lower(SubSeq(text, i, i + 8)) \in {<<"n", "e", "x", "t", " ", "w", "e", "e", "k">>, <<"t", "h", "i", "s", " ", "w", "e", "e", "k">>}
    /\ (i = 1 \/ ~IsWordChar(text[i - 1]))
    /\ (i + 9 > Len(text) \/ ~IsWordChar(text[i + 9]))

\* re.sub(r"\b(next|this) week\b", '', text, flags=re.IGNORECASE)
RECURSIVE WithoutWeek(_, _)
WithoutWeek(text, i) ==
    IF i > Len(text) THEN << >>
    ELSE IF WeekAt(text, i) THEN WithoutWeek(text, i + 9)
    ELSE <<text[i]>> \o WithoutWeek(text, i + 1)

\* the alternatives of the pattern at line 591, in their order
RivalWords == <<<<"b", "e", "a", "t">>, <<"v", "e", "r", "s", "u", "s">>, <<"v", "s">>, <<"h", "e", "a", "d", " ", "t", "o", " ", "h", "e", "a", "d", " ", "w", "i", "t", "h">>, <<"h", "2", "h", " ", "w", "i", "t", "h">>, <<"h", "2", "h", " ", "a", "g", "a", "i", "n", "s", "t">>, <<"h", "2", "h">>>>

\* (?:word)\s+([\w'\s]+) can match with word starting at position i
WordThenName(message, i, word) ==
    /\ i + Len(word) + 1 <= Len(message)
    /\ Lower(SubSeq(message, i, i + Len(word) - 1)) = word
    /\ IsSpaceChar(message[i + Len(word)])
    /\ (IsWordChar(message[i + Len(word) + 1]) \/ message[i + Len(word) + 1] = "'"
          \/ IsSpaceChar(message[i + Len(word) + 1]))

\* the run of [\w'\s] that starts at position s
NameRun(message, s) ==
    SubSeq(message, s,
           CHOOSE e \in s .. Len(message) :
               /\ \A k \in s .. e : IsWordChar(message[k]) \/ message[k] = "'" \/ IsSpaceChar(message[k])
               /\ (e = Len(message)
                     \/ ~(IsWordChar(message[e + 1]) \/ message[e + 1] = "'" \/ IsSpaceChar(message[e + 1]))))

\* lines 591-595 and 609-613: re.search of the pattern over words, and the
\* opponent cut out of its group; << >> when there is no match or no name
Opponent(message, words) ==
    IF \A i \in 1 .. Len(message) : \A k \in 1 .. Len(words) : ~WordThenName(message, i, words[k])
    THEN << >>
    ELSE LET i == CHOOSE j \in 1 .. Len(message) :
                      /\ \E k \in 1 .. Len(words) : WordThenName(message, j, words[k])
                      /\ \A h \in 1 .. j - 1 : \A k \in 1 .. Len(words) : ~WordThenName(message, h, words[k])
             k == CHOOSE n \in 1 .. Len(words) :
                      /\ WordThenName(message, i, words[n])
                      /\ \A h \in 1 .. n - 1 : ~WordThenName(message, i, words[h])
         IN  Strip(WithoutWeek(StripOf(Strip(NameRun(message, i + Len(words[k]) + 1)),
                                       {"?", ".", "!", ",", "'", "\""}), 1))

Intent(feature_id) == [feature_id |-> feature_id, opponent |-> << >>, sort |-> ""]

NoIntent == Intent("")

\* _detect_intent, lines 560-603: the keyword rules; NoIntent when none applies
KeywordIntent(message, text) ==
    IF /\ (Contains(text, <<"s", "q", "u", "a", "d">>) \/ Contains(text, <<"t", "e", "a", "m">>))
       /\ AnyOf(text, {<<"p", "e", "r", "f", "o", "r", "m">>, <<"p", "o", "i", "n", "t", "s">>, <<"s", "c", "o", "r", "e">>})
       /\ AnyOf(text, {<<"n", "e", "x", "t">>, <<"u", "p", "c", "o", "m", "i", "n", "g">>, <<"g", "w">>, <<"g", "a", "m", "e", "w", "e", "e", "k">>})
    THEN Intent("ai-team-performance")
    ELSE IF AnyOf(text, {<<"m", "y", " ", "t", "e", "a", "m">>, <<"l", "i", "n", "e", "u", "p">>, <<"s", "q", "u", "a", "d">>, <<"f", "o", "r", "m", "a", "t", "i", "o", "n">>, <<"s", "t", "a", "r", "t", "i", "n", "g">>})
    THEN Intent("my-team-summary")
    ELSE IF AnyOf(text, {<<"c", "a", "p", "t", "a", "i", "n">>, <<"c", "p", "t">>})
    THEN Intent("smart-captaincy")
    ELSE IF AnyOf(text, {<<"c", "h", "i", "p">>, <<"b", "e", "n", "c", "h", " ", "b", "o", "o", "s", "t">>, <<"t", "r", "i", "p", "l", "e", " ", "c", "a", "p", "t", "a", "i", "n">>, <<"f", "r", "e", "e", " ", "h", "i", "t">>, <<"w", "i", "l", "d", "c", "a", "r", "d">>})
    THEN Intent("chip-advice")
    ELSE IF AnyOf(text, {<<"t", "r", "a", "n", "s", "f", "e", "r">>, <<"u", "p", "g", "r", "a", "d", "e">>, <<"s", "e", "l", "l">>})
    THEN Intent("transfer-suggester")
    ELSE IF AnyOf(text, {<<"i", "n", "j", "u", "r", "y">>, <<"r", "i", "s", "k">>, <<"f", "l", "a", "g", "g", "e", "d">>})
    THEN Intent("injury-risk")
    ELSE IF Contains(text, <<"l", "e", "a", "g", "u", "e">>) /\ AnyOf(text, {<<"c", "u", "r", "r", "e", "n", "t">>, <<"n", "o", "w">>, <<"l", "a", "t", "e", "s", "t">>, <<"t", "o", "d", "a", "y">>})
    THEN Intent("league-current")
    ELSE IF Contains(text, <<"l", "e", "a", "g", "u", "e">>) /\ AnyOf(text, {<<"p", "r", "e", "d", "i", "c", "t">>, <<"s", "t", "a", "n", "d", "i", "n", "g", "s">>, <<"r", "a", "n", "k">>})
    THEN Intent("league-predictions")
    ELSE IF AnyOf(text, {<<"b", "e", "a", "t">>, <<"v", "e", "r", "s", "u", "s">>, <<"v", "s">>, <<"h", "e", "a", "d", " ", "t", "o", " ", "h", "e", "a", "d">>, <<"h", "2", "h">>}) /\ Opponent(message, RivalWords) # << >>
    THEN [Intent("league-head-to-head") EXCEPT !.opponent = Opponent(message, RivalWords)]
    ELSE IF AnyOf(text, {<<"d", "i", "f", "f", "e", "r", "e", "n", "t", "i", "a", "l">>, <<"u", "n", "d", "e", "r", " ", "o", "w", "n", "e", "d">>})
    THEN [Intent("differential-hunter") EXCEPT
             !.sort = IF Contains(text, <<"i", "c", "t">>) THEN "ict_index"
                      ELSE IF Contains(text, <<"p", "o", "i", "n", "t", "s">>) THEN "total_points" ELSE "form"]
    ELSE IF AnyOf(text, {<<"a", "i">>, <<"m", "a", "c", "h", "i", "n", "e">>, <<"s", "m", "a", "r", "t">>})
    THEN Intent("ai-predictions")
    ELSE IF Contains(text, <<"p", "r", "e", "d", "i", "c", "t">>) /\ Contains(text, <<"t", "o", "p">>)
    THEN Intent("predicted-top-performers")
    ELSE IF AnyOf(text, {<<"d", "r", "e", "a", "m", " ", "t", "e", "a", "m">>, <<"w", "i", "l", "d", "c", "a", "r", "d">>})
    THEN Intent("dream-team")
    ELSE IF Contains(text, <<"q", "u", "a", "d", "r", "a", "n", "t">>) \/ (Contains(text, <<"f", "o", "r", "m">>) /\ Contains(text, <<"f", "i", "x", "t", "u", "r", "e">>))
    THEN Intent("quadrant-analysis")
    ELSE NoIntent

\* _detect_intent, lines 606-617: what the classifier's result is turned into
ClassifiedIntent(message, result) ==
    IF ~result.found THEN NoIntent
    ELSE IF result.intent = "league-head-to-head"
    THEN [Intent(result.intent) EXCEPT !.opponent = Opponent(message, RivalWords \o <<<<"a", "g", "a", "i", "n", "s", "t">>>>)]
    ELSE Intent(result.intent)

\* IntentClassifier(), as get_intent_classifier builds it (intent_classifier.py:197-198)
DefaultClassifier ==
    [phase |-> "fitted", intent_examples |-> _DEFAULT_INTENTS,
     documents |-> Documents(_DEFAULT_INTENTS),
     idf |-> Idf(Documents(_DEFAULT_INTENTS)),
     intent_vectors |-> IntentVectors(Documents(_DEFAULT_INTENTS), Idf(Documents(_DEFAULT_INTENTS)))]

\* what data.get('message') may hold
ChatMessages ==
    {<< >>,
     <<" ", " ">>,
     <<"h", "i">>,
     <<"h", "e", "y", " ", "t", "e", "a", "m">>,
     <<"c", "a", "p", "t", "a", "i", "n">>,
     <<"c", "h", "i", "p", " ", "s", "t", "r", "a", "t", "e", "g", "y">>,
     <<"w", "h", "e", "n", " ", "s", "h", "o", "u", "l", "d", " ", "i", " ", "u", "s", "e", " ", "m", "y", " ", "c", "h", "i", "p", "s">>,
     <<"h", "o", "w", " ", "w", "i", "l", "l", " ", "m", "y", " ", "s", "q", "u", "a", "d", " ", "s", "c", "o", "r", "e", " ", "n", "e", "x", "t", " ", "g", "w">>,
     <<"b", "e", "a", "t", " ", "B", "o", "b", " ", "n", "e", "x", "t", " ", "w", "e", "e", "k">>,
     <<"W", "i", "l", "l", " ", "I", " ", "b", "e", "a", "t", " ", " ", "'", "A", "n", "n", " ", "L", "e", "e", "'", "?">>,
     <<"v", "s">>,
     <<"h", "2", "h", " ", "w", "i", "t", "h", " ", "n", "e", "x", "t", " ", "w", "e", "e", "k">>,
     <<"h", "e", "a", "d", " ", "t", "o", " ", "h", "e", "a", "d", " ", "b", "o", "b">>,
     <<"s", "h", "o", "w", " ", "t", "a", "b", "l", "e", " ", "n", "o", "w">>,
     <<"x", "y", "z", "z", "y">>,
     <<"p", "o", "i", "n", "t", "s", " ", "d", "o">>,
     <<"?", "?", "?">>,
     <<"s", "e", "l", "l", " ", "o", "r", " ", "u", "p", "g", "r", "a", "d", "e">>,
     <<"d", "i", "f", "f", "e", "r", "e", "n", "t", "i", "a", "l", "s", " ", "b", "y", " ", "i", "c", "t">>,
     <<"u", "n", "d", "e", "r", " ", "o", "w", "n", "e", "d", " ", "p", "o", "i", "n", "t", "s">>,
     <<"p", "r", "e", "d", "i", "c", "t", " ", "t", "h", "e", " ", "l", "e", "a", "g", "u", "e", " ", "r", "a", "n", "k">>,
     <<"l", "e", "a", "g", "u", "e", " ", "t", "a", "b", "l", "e", " ", "t", "o", "d", "a", "y">>,
     <<"d", "r", "e", "a", "m", " ", "t", "e", "a", "m", " ", "p", "l", "e", "a", "s", "e", " ", "n", "o", "w">>,
     <<"f", "o", "r", "m", " ", "a", "n", "d", " ", "f", "i", "x", "t", "u", "r", "e", " ", "p", "l", "e", "a", "s", "e">>,
     <<"p", "r", "e", "d", "i", "c", "t", " ", "t", "o", "p", " ", "s", "c", "o", "r", "e", "r", "s">>,
     <<"a", " ", "s", "m", "a", "r", "t", " ", "p", "i", "c", "k", " ", "f", "o", "r", " ", "m", "e">>,
     <<"w", "h", "o", " ", "i", "s", " ", "m", "y", " ", "r", "i", "v", "a", "l", " ", "a", "g", "a", "i", "n", "s", "t", " ", "B", "o", "b">>}

\* the knowledge bases chat may build: bootstraps of at most one player
ChatKbInputs(team_id, league_id) ==
    [roster : {r \in Rosters : Len(r) <= 1},
     player_limit : {DefaultPlayerLimit},
     team_id : {team_id},
     league_id : {league_id},
     ctx : Contexts,
     fails : {f \in SUBSET SubBuilders : Cardinality(f) <= MaxFailures}]

\* the exceptions _execute_feature may end in: the three that chat handles
\* (lines 706-726) and one of those it does not
FeatureOutcomes == {"ok", "ValueError", "RuntimeError", "RequestException", "KeyError"}

NoChat == [phase |-> "none"]

Received(message) ==
    [phase |-> "received", message |-> message, team_id |-> None, league_id |-> None,
     intent |-> NoIntent, steps |-> << >>, retrieved |-> 0, status |-> 0, reply |-> ""]

ChatInit == chat \in {Received(message) : message \in ChatMessages}

\* the reply is sent with this status
Replied(status, words) == [chat EXCEPT !.phase = "replied", !.status = status, !.reply = words]

\* lines 641-658: the message is read; an empty one and a greeting are answered
ChatReceive ==
    /\ chat.phase = "received"
    /\ chat' = IF Strip(chat.message) = << >>
               THEN [Replied(400, "I didn't catch that.") EXCEPT !.message = << >>]
               ELSE IF Greets(Lower(Strip(chat.message)))
               THEN [Replied(200, "Hey!") EXCEPT !.message = Strip(chat.message)]
               ELSE [chat EXCEPT !.phase = "context", !.message = Strip(chat.message)]
    /\ UNCHANGED <<cacheVars, kbVars, mlVars, clfVars, fitVars, rtVars, ragVars>>

\* lines 660-685: build_context, resolve_team_id, resolve_league_id
ChatContext ==
    /\ chat.phase = "context"
    /\ \E outcome \in {"ok", "ValueError", "RequestException"},
          team_id \in SquadIds \cup {None}, league_id \in LeagueIds \cup {None} :
          chat' = IF outcome = "ValueError" THEN Replied(400, "ValueError")
                  ELSE IF outcome = "RequestException" THEN Replied(502, "I couldn't reach the FPL API")
                  ELSE [chat EXCEPT !.phase = "keywords", !.team_id = team_id, !.league_id = league_id]
    /\ UNCHANGED <<cacheVars, kbVars, mlVars, clfVars, fitVars, rtVars, ragVars>>

\* line 687 into _detect_intent, lines 560-603
ChatKeywords ==
    /\ chat.phase = "keywords"
    /\ chat' = [chat EXCEPT !.intent = KeywordIntent(chat.message, Lower(chat.message)),
                            !.steps = Append(@, "keywords"),
                            !.phase = IF KeywordIntent(chat.message, Lower(chat.message)) = NoIntent
                                      THEN "get_classifier" ELSE "feature"]
    /\ UNCHANGED <<cacheVars, kbVars, mlVars, clfVars, fitVars, rtVars, ragVars>>

\* _detect_intent, line 605: get_intent_classifier()
ChatGetClassifier ==
    /\ chat.phase = "get_classifier"
    /\ clf' = IF clf.phase = "none" THEN DefaultClassifier ELSE clf
    /\ chat' = [chat EXCEPT !.phase = "classify"]
    /\ UNCHANGED <<clf_arg, reply, cacheVars, kbVars, mlVars, fitVars, rtVars, ragVars>>

\* Mutant: a feature that fails hands the message on to retrieval.
AfterFeatureFallsBack(outcome) == IF outcome = "ok" THEN "replied" ELSE "build"

\* lines 689-726: every branch after _execute_feature returns the reply
AfterFeature(outcome) == "replied"

\* _detect_intent, lines 606-617, and the branch at line 689
ChatClassify ==
    /\ chat.phase = "classify"
    /\ chat' = [chat EXCEPT !.intent = ClassifiedIntent(chat.message, classify(clf, chat.message)),
                            !.steps = Append(@, "classifier"),
                            !.phase = IF classify(clf, chat.message).found THEN "feature" ELSE "build"]
    /\ UNCHANGED <<cacheVars, kbVars, mlVars, clfVars, fitVars, rtVars, ragVars>>

\* lines 689-726: the feature is executed and its result or its error sent
ChatFeature ==
    /\ chat.phase = "feature"
    /\ \E outcome \in FeatureOutcomes :
          chat' = [chat EXCEPT !.steps = Append(@, "feature"),
                               !.phase = IF outcome = "KeyError" THEN "failed" ELSE AfterFeature(outcome),
                               !.status = CASE outcome = "ok" -> 200
                                            [] outcome = "ValueError" -> 400
                                            [] outcome = "RequestException" -> 502
                                            [] OTHER -> 500,
                               !.reply = outcome]
    /\ UNCHANGED <<cacheVars, kbVars, mlVars, clfVars, fitVars, rtVars, ragVars>>

\* line 731: build_knowledge_base(context, team_id=team_id, league_id=league_id);
\* an exception that is not a RuntimeError leaves chat
ChatBuild ==
    /\ chat.phase = "build"
    /\ \E in \in ChatKbInputs(chat.team_id, chat.league_id) :
          /\ kb_in' = in
          /\ kb_out' = build_knowledge_base(in)
          /\ chat' = [chat EXCEPT !.steps = Append(@, "build"),
                                  !.phase = IF build_knowledge_base(in).phase = "raised"
                                            THEN "failed" ELSE "retrieve",
                                  !.status = IF build_knowledge_base(in).phase = "raised"
                                             THEN 500 ELSE 0]
    /\ UNCHANGED <<cacheVars, mlVars, clfVars, fitVars, rtVars, ragVars>>

\* line 732: retrieve(message, kb) gives at most the default top_k documents
ChatRetrieve ==
    /\ chat.phase = "retrieve"
    /\ \E n \in {0, Min(DefaultTopK, Len(kb_out.documents))} :
          chat' = [chat EXCEPT !.steps = Append(@, "retrieve"), !.phase = "compose",
                               !.retrieved = IF _tokenize(chat.message) = << >> THEN 0 ELSE n]
    /\ UNCHANGED <<cacheVars, kbVars, mlVars, clfVars, fitVars, rtVars, ragVars>>

\* lines 733-749: generate_answer, _maybe_generate_llm_reply and the reply
ChatCompose ==
    /\ chat.phase = "compose"
    /\ \E llm_reply \in {"", "llm"} :
          chat' = [chat EXCEPT !.steps = Append(@, "compose"), !.phase = "replied", !.status = 200,
                               !.reply = IF llm_reply # "" THEN llm_reply
                                         ELSE "Here is what I found in your FPL knowledge base."]
    /\ UNCHANGED <<cacheVars, kbVars, mlVars, clfVars, fitVars, rtVars, ragVars>>

NextChat ==
    \/ ChatReceive \/ ChatContext \/ ChatKeywords \/ ChatGetClassifier \/ ChatClassify
    \/ ChatFeature \/ ChatBuild \/ ChatRetrieve \/ ChatCompose

InitChat == CacheInit /\ KbIdle /\ MlIdle /\ ClfIdle /\ FitIdle /\ RtIdle /\ RagIdle /\ ChatInit

SpecChat == InitChat /\ [][NextChat]_vars

(***************************************************************************)
(* The built classifier and a trained model dictionary under repeated      *)
(* readers: classify (intent_classifier.py:150-180) and                    *)
(* predict_upcoming_points (ai_models.py:65-90).  clf is the classifier    *)
(* object as the last call left it; train.model is the dictionary          *)
(* train_points_model returned and pred.model the same dictionary as the   *)
(* last prediction left it.                                                *)
(***************************************************************************)
\* Mutant: the table is a defaultdict read by subscription, which adds the
\* token it does not hold.
IdfAfterSubscript(idf, token) ==
    IF token \in DOMAIN idf THEN idf ELSE idf @@ (token :> 0)

\* self.idf.get(token), line 158: self.idf is the plain dict of lines
\* 129-133 and dict.get adds no key
IdfAfterGet(idf, token) == idf

\* lines 157-163: the table after the loop over the counted tokens
RECURSIVE IdfAfterLookups(_, _)
IdfAfterLookups(idf, tf) ==
    IF tf = << >> THEN idf
    ELSE IdfAfterLookups(IdfAfterGet(idf, tf[1].token), Tail(tf))

\* vec_b.get(token, 0.0), line 186: a centroid is the plain dict of line 148
CentroidAfterGet(centroid, token) == centroid

\* _cosine_similarity, lines 185-188: the centroid after the loop over vec_a
RECURSIVE CentroidAfterLookups(_, _)
CentroidAfterLookups(centroid, vec) ==
    IF vec = << >> THEN centroid
    ELSE CentroidAfterLookups(CentroidAfterGet(centroid, vec[1].token), Tail(vec))

\* lines 172-176: self.intent_vectors after the loop over its items
VectorsAfterScoring(intent_vectors, vec) ==
    List([k \in 1 .. Len(intent_vectors) |->
            [intent_vectors[k] EXCEPT !.centroid = CentroidAfterLookups(@, vec)]])

\* classify, lines 150-180: what the call leaves of self
AfterClassify(self, text) ==
    IF _tokenize(text) = << >> THEN self
    ELSE [self EXCEPT !.idf = IdfAfterLookups(self.idf, Counter(_tokenize(text))),
                      !.intent_vectors =
                          VectorsAfterScoring(self.intent_vectors,
                                              QueryVector(_tokenize(text), self.idf))]

\* predict_upcoming_points, lines 65-90: what the call leaves of model_dict.
\* RegressionModel (lines 66-73) shares the lists of the dictionary;
\* predict and _normalise (lines 36-38, 206-213) read them and build new
\* lists, and the sort of line 89 orders the local predictions.
AfterPredict(model_dict, player_histories, w) == model_dict

\* the histories handed to predict_upcoming_points, with their window
ReaderInputs ==
    {[histories |-> Entries(hs), w |-> MaxWindow] :
        hs \in {<< >>, <<Career(<<MatchA, MatchB, MatchA, MatchC>>, MaxHist)>>,
                <<Career(<<MatchC, MatchD, MatchA, MatchB>>, MaxHist),
                  Career(<<MatchA, MatchB, MatchA, MatchC>>, MaxWindow)>>}}

\* the texts handed to classify: without a token, of tokens the examples
\* hold, of tokens they do not hold, and of both
ReaderTexts ==
    {<< >>, <<"?", "!">>, Foo, Join(<<Foo, <<"x", "y", "z", "z", "y">>>>),
     <<"x", "y", "z", "z", "y">>, <<"c", "a", "p", "t", "a", "i", "n">>,
     Join(<<<<"t", "e", "a", "m">>, <<"p", "o", "i", "n", "t", "s">>>>)}

ReadersInit ==
    /\ clf_arg \in ExampleArgs
    /\ clf = NoClassifier
    /\ reply = NoReply
    /\ t_in = NoInput
    /\ smp = NoSamples
    /\ pred = NoPredictions
    /\ \E model \in ModelPool : train = [NoTraining EXCEPT !.phase = "returned", !.model = model]

\* classifier.classify(text), any number of times
ClassifyCall ==
    /\ clf.phase = "fitted"
    /\ \E text \in ReaderTexts :
          /\ reply' = [phase |-> "returned", text |-> text] @@ classify(clf, text)
          /\ clf' = AfterClassify(clf, text)
    /\ UNCHANGED <<clf_arg, cacheVars, kbVars, mlVars, fitVars, rtVars, ragVars, chatVars>>

\* predict_upcoming_points(model, player_histories, history_window), any
\* number of times on the same dictionary
PredictCall ==
    /\ train.phase = "returned"
    /\ \E input \in ReaderInputs :
          LET model_dict == IF pred.phase = "none" THEN train.model ELSE pred.model
          IN  /\ t_in' = input
              /\ pred' = [phase |-> "returned",
                          model |-> AfterPredict(model_dict, input.histories, input.w),
                          predictions |->
                              predict_upcoming_points(model_dict, input.histories, input.w)]
    /\ UNCHANGED <<smp, train, cacheVars, kbVars, clfVars, fitVars, rtVars, ragVars, chatVars>>

NextReaders == IcInit \/ IcFitIdf \/ IcFitVectors \/ ClassifyCall \/ PredictCall

InitReaders == CacheInit /\ KbIdle /\ ReadersInit /\ FitIdle /\ RtIdle /\ RagIdle /\ ChatIdle

SpecReaders == InitReaders /\ [][NextReaders]_vars

SquadDocTypes == {"transfer", "team_projection", "chip"}

DocsOfTypes(docs, types) == {i \in 1 .. Len(docs) : docs[i].doc_type \in types}

\* C4: the transfer, squad-projection and chip documents are in the corpus
\* only when the caller supplied a squad, and are built for exactly that
\* squad; with no squad supplied none of them is in the corpus.
C4_SquadDocsOnlyForSuppliedSquad ==
    kb_out.phase = "returned" =>
        LET squad == DocsOfTypes(kb_out.documents, SquadDocTypes)
        IN  /\ kb_in.team_id = None => squad = {}
            /\ \A i \in squad : kb_out.documents[i].built_for = kb_in.team_id


(***************************************************************************)
(* Claims about the lazy caches.                                           *)
(***************************************************************************)
FullyBuilt(obj) == obj = [idf |-> "fitted", intent_vectors |-> "fitted"]

Complete(b) ==
    /\ b.model # None
    /\ b.predictions # None
    /\ b.history_window = DEFAULT_HISTORY_WINDOW

\* C1: whatever the interleaving of concurrent callers that find the slot
\* empty, at most one classifier is constructed and at most one bundle is
\* computed by _fetch_or_train_ai_model.
C1_ConstructedAtMostOnce ==
    /\ classifierBuilds <= 1
    /\ fetchBuilds <= 1

\* C2: once the cache holds a trained bundle, no request trains a model
\* again: training runs at most once per process.
C2_NoTrainingOnceCached ==
    [][_AI_PREDICTION_CACHE # NoBundle => TotalTrainRuns' = TotalTrainRuns]_vars

\* C3: the cache slots never hold, and no caller ever receives or reads, a
\* classifier whose idf table or centroids are not yet computed, or a
\* prediction bundle that is incomplete.
C3_OnlyFullyBuiltObserved ==
    /\ _classifier # None => FullyBuilt(heap[_classifier])
    /\ _AI_PREDICTION_CACHE # NoBundle => Complete(_AI_PREDICTION_CACHE)
    /\ \A t \in Threads :
          /\ pc[t] = "classify" => frame[t].obj # None /\ FullyBuilt(heap[frame[t].obj])
          /\ ret[t].tag = "classifier" => FullyBuilt(ret[t].saw)
          /\ ret[t].tag = "bundle" => Complete(ret[t].bundle)

\* C3 witness: two callers raced, each constructed a classifier, and both
\* were served one.
C3_Witness ==
    /\ classifierBuilds = 2
    /\ \A t \in {1, 2} : ret[t].tag = "classifier"

(***************************************************************************)
(* Claims about ai_models.                                                 *)
(***************************************************************************)
HistoryOf(e) == t_in.histories[e].history

\* len(history) - w for an entry with more than w matches, 0 otherwise
SamplesDue(e) == Max(Len(HistoryOf(e)) - t_in.w, 0)

\* the samples due from the entries before entry e
SamplesBefore(e) == SumSeq([d \in 1 .. (e - 1) |-> SamplesDue(d)])

SamplesTotal == SamplesBefore(Len(t_in.histories) + 1)

\* the entries predict_upcoming_points has to score
Scorable == {e \in 1 .. Len(t_in.histories) : Len(HistoryOf(e)) >= t_in.w}

\* C5: train_points_model never raises because of a label: every target is
\* the next match's total_points as a float, 0 when it is missing or not a
\* number.
C5_LabelsNeverRaise ==
    /\ train.exc # "ValueError"
    /\ train.phase \in {"fitting", "returned"} =>
          \A e \in 1 .. Len(t_in.histories) : \A k \in 1 .. SamplesDue(e) :
              train.targets[SamplesBefore(e) + k] = PointsValue(HistoryOf(e)[t_in.w + k])

\* C7: _build_training_samples gives, for every entry, no sample when
\* len(history) <= w and otherwise one sample for each index i in
\* w..len(history)-1, of features summarising history[i-w:i] and of label
\* history[i].total_points; 20 players with 8 matches each and w = 5 give 60.
C7_SamplesPerEntry ==
    smp.phase # "none" =>
        /\ smp.phase = "returned"
        /\ Len(smp.rows) = SamplesTotal
        /\ Len(smp.targets) = SamplesTotal
        /\ \A e \in 1 .. Len(t_in.histories) : \A k \in 1 .. SamplesDue(e) :
              /\ smp.rows[SamplesBefore(e) + k]
                    = _summarise_window(SubSeq(HistoryOf(e), k, k + t_in.w - 1))[1]
              /\ smp.targets[SamplesBefore(e) + k] = PointsValue(HistoryOf(e)[t_in.w + k])
        /\ t_in = Scenario20x8 => Len(smp.rows) = 60

\* C8: train_points_model raises RuntimeError exactly when every entry has
\* len(history) <= w, and then it has fitted nothing and returns no model.
C8_RuntimeErrorIffNoSamples ==
    train.phase # "none" =>
        /\ (train.phase = "raised" /\ train.exc = "RuntimeError") <=> SamplesTotal = 0
        /\ SamplesTotal = 0 => train.epoch = 0 /\ train.model = NoModel

\* C8 witness: the one entry supplied has exactly w matches and the call
\* has raised RuntimeError.
C8_Witness ==
    /\ train.phase = "raised" /\ train.exc = "RuntimeError"
    /\ \E e \in 1 .. Len(t_in.histories) : Len(HistoryOf(e)) = t_in.w

\* C9: predict_upcoming_points returns one entry for each input entry with
\* len(history) >= w, scored on its last w matches, and none for the others;
\* an entry with exactly w matches is among them although it adds no
\* training sample.
C9_PredictedIffWindowFull ==
    /\ Len(smp.rows) <= SamplesTotal
    /\ pred.phase = "returned" =>
          /\ Len(pred.predictions) = Cardinality(Scorable)
          /\ \A e \in Scorable : \E i \in 1 .. Len(pred.predictions) :
                /\ pred.predictions[i].player = e
                /\ pred.predictions[i].avg_points
                      = _summarise_window(SubSeq(HistoryOf(e),
                                                 Len(HistoryOf(e)) - t_in.w + 1,
                                                 Len(HistoryOf(e))))[2]
          /\ \A e \in 1 .. Len(t_in.histories) :
                Len(HistoryOf(e)) = t_in.w => e \in Scorable /\ SamplesDue(e) = 0

\* C9 witness: of two entries one has exactly w matches and one has fewer;
\* no sample was built and one prediction was returned.
C9_Witness ==
    /\ pred.phase = "returned" /\ smp.phase = "returned"
    /\ Len(t_in.histories) = 2
    /\ \E e \in 1 .. 2 : Len(HistoryOf(e)) = t_in.w
    /\ \E e \in 1 .. 2 : Len(HistoryOf(e)) < t_in.w
    /\ Len(smp.rows) = 0
    /\ Len(pred.predictions) = 1

\* C10: every entry predict_upcoming_points returns has predicted >= 0,
\* whatever the model and the histories.
C10_PredictedNonNegative ==
    \A i \in 1 .. Len(pred.predictions) : pred.predictions[i].predicted >= 0

\* C10 witness: the model of negative weights and bias scored a player
\* below zero and the entry returned for that player carries 0.
C10_Witness ==
    /\ pred.phase = "returned"
    /\ pred.model = ModelNeg
    /\ \E i \in 1 .. Len(pred.predictions) :
          LET h == HistoryOf(pred.predictions[i].player)
          IN  /\ pred.predictions[i].predicted = 0
              /\ ModelPredict(pred.model,
                     _summarise_window(SubSeq(h, Len(h) - t_in.w + 1, Len(h)))[1]) < 0

(***************************************************************************)
(* Claims about the intent classifier.                                     *)
(***************************************************************************)
\* what float rounding may add to or take from a similarity
Rounding == FX \div 50

\* The text is an example phrase (one with tokens) of the k-th intent.
HasExample(k, text) ==
    /\ \E i \in 1 .. Len(clf.intent_examples[k].examples) :
          clf.intent_examples[k].examples[i] = text
    /\ _tokenize(text) # << >>

\* C6 as stated: a query identical to an example phrase of an intent
\* classifies to that intent with similarity 1.0.
C6_ExampleScoresOne ==
    reply.phase = "returned" =>
        \A k \in 1 .. Len(clf.intent_examples) :
            HasExample(k, reply.text) =>
                /\ reply.found
                /\ reply.intent = clf.intent_examples[k].intent
                /\ Abs(reply.score - FX) <= Rounding

\* C6 as amended: with the built-in example set a query identical to an
\* example phrase of an intent classifies to that intent with a similarity
\* of at least the 0.3 threshold and below 1.0; with any example set the
\* similarity is 1.0 for an example phrase of an intent that has that one
\* example only, and never above 1.0.
C6_ExampleClassifiesToItsIntent ==
    reply.phase = "returned" =>
        /\ reply.score <= FX + Rounding
        /\ \A k \in 1 .. Len(clf.intent_examples) :
              HasExample(k, reply.text) =>
                  /\ clf_arg = << >> =>
                        /\ reply.found
                        /\ reply.intent = clf.intent_examples[k].intent
                        /\ reply.score >= Threshold
                        /\ reply.score < FX - Rounding
                  /\ Len(DocsOf(clf.intent_examples[k])) = 1 =>
                        /\ reply.found
                        /\ reply.score >= FX - Rounding

\* C6 witness: an example phrase of a built-in intent was classified to
\* that intent with a similarity below one half.
C6_Witness ==
    /\ reply.phase = "returned"
    /\ clf_arg = << >>
    /\ \E k \in 1 .. Len(clf.intent_examples) :
          /\ HasExample(k, reply.text)
          /\ reply.found
          /\ reply.intent = clf.intent_examples[k].intent
          /\ reply.score < FX \div 2

(***************************************************************************)
(* Claims about the order of the predictions.  Entries(hs) numbers the     *)
(* players 1, 2, ... in input order, so the player of a prediction is the  *)
(* position of its entry in player_histories.                              *)
(***************************************************************************)
\* C11: the list predict_upcoming_points returns is in non-increasing order
\* of predicted, and entries with equal predicted values keep the relative
\* order their entries had in player_histories.
C11_SortedDescendingStable ==
    pred.phase = "returned" =>
        \A i, j \in 1 .. Len(pred.predictions) :
            i < j =>
                /\ pred.predictions[i].predicted >= pred.predictions[j].predicted
                /\ pred.predictions[i].predicted = pred.predictions[j].predicted
                      => pred.predictions[i].player < pred.predictions[j].player

\* Reached: a returned list in which the sort moved a later entry ahead of
\* an earlier one and in which two entries are tied on a positive value.
C11_Witness ==
    /\ pred.phase = "returned"
    /\ \E i, j \in 1 .. Len(pred.predictions) :
          /\ i < j
          /\ pred.predictions[i].player > pred.predictions[j].player
    /\ \E i, j \in 1 .. Len(pred.predictions) :
          /\ i < j
          /\ pred.predictions[i].predicted = pred.predictions[j].predicted
          /\ pred.predictions[i].predicted > 0

(***************************************************************************)
(* Claims about the statistics of a feature column.                        *)
(***************************************************************************)
\* the column holds one value in every training row
ConstantColumn == \A i \in 1 .. Len(col_fit.column) : col_fit.column[i] = col_fit.column[1]

\* C12: for a feature column with the same value in every training sample
\* (one sample included) the fit divides by no zero, stores std 1 and
\* normalises the feature to 0 in every training row; and _normalise gives 0
\* for a feature whose stored std is exactly 0.
C12_ZeroVarianceSafe ==
    /\ col_fit.phase \in {"std", "normalised", "predicted"} =>
          /\ col_fit.std.m # 0
          /\ ConstantColumn => col_fit.std = FromInt(1)
    /\ col_fit.phase \in {"normalised", "predicted"} /\ ConstantColumn =>
          \A i \in 1 .. Len(col_fit.normalised) : col_fit.normalised[i] = FZero
    /\ col_fit.phase = "predicted" /\ col_fit.stored_std = FZero => col_fit.vector = FZero

(***************************************************************************)
(* Claims about repeated training.                                         *)
(***************************************************************************)
\* what a finished call of train_points_model hands to its caller
Outcome == [phase |-> train.phase, exc |-> train.exc, model |-> train.model]

NumberOrZero(raw) ==
    CASE raw.t = "num" -> raw.n * FX
      [] raw.t = "str" /\ IsDecimal(raw.s) -> DecimalVal(raw.s)
      [] OTHER -> 0

\* the field of a match as a number, a missing field counting as 0
FieldOrZero(match, field) ==
    IF field \in DOMAIN match THEN NumberOrZero(match[field]) ELSE 0

\* the mean of a field over a window of at least one match
MeanOf(window, field) ==
    Quot(SumSeq([i \in 1 .. Len(window) |-> FieldOrZero(window[i], field)]), Len(window))

\* the ten means of a window, the minutes mean over 90
MeansOf(window) ==
    [j \in 1 .. 10 |-> IF FEATURE_FIELDS[j] = "minutes"
                       THEN Quot(MeanOf(window, "minutes"), 90)
                       ELSE MeanOf(window, FEATURE_FIELDS[j])]

\* the last w matches of entry e
LastWindow(e) == SubSeq(HistoryOf(e), Len(HistoryOf(e)) - t_in.w + 1, Len(HistoryOf(e)))

\* the match has a tracked field that is missing, None, empty or no number
Malformed(match) ==
    \E j \in 1 .. 10 :
        \/ FEATURE_FIELDS[j] \notin DOMAIN match
        \/ ~PyFloat(match[FEATURE_FIELDS[j]]).ok

\* C14: the summariser never raises on malformed data: a tracked field that
\* is missing, None, empty or non-numeric in a match counts as 0 in the
\* field's mean and in avg_points, the minutes mean is divided by 90, and
\* training rows and predictions are summarised by the same function.
C14_SummaryCountsMalformedAsZero ==
    /\ pred.phase \in {"none", "returned"}
    /\ smp.phase = "raised" => smp.exc = "ValueError"
    /\ smp.phase = "returned" =>
          \A e \in 1 .. Len(t_in.histories) : \A k \in 1 .. SamplesDue(e) :
              smp.rows[SamplesBefore(e) + k] = MeansOf(SubSeq(HistoryOf(e), k, k + t_in.w - 1))
    /\ pred.phase = "returned" =>
          \A i \in 1 .. Len(pred.predictions) :
              /\ pred.predictions[i].avg_points
                    = MeanOf(LastWindow(pred.predictions[i].player), "total_points")
              /\ pred.predictions[i].predicted
                    = Max(ModelPredict(pred.model,
                                       MeansOf(LastWindow(pred.predictions[i].player))), 0)

\* Reached: training rows and a prediction have been returned for an entry
\* whose training window and whose last window both hold a malformed match.
C14_Witness ==
    /\ smp.phase = "returned"
    /\ pred.phase = "returned"
    /\ \E i \in 1 .. Len(pred.predictions) :
          LET e == pred.predictions[i].player
          IN  /\ SamplesDue(e) > 0
              /\ \E m \in 1 .. t_in.w : Malformed(HistoryOf(e)[m])
              /\ \E m \in 1 .. t_in.w : Malformed(LastWindow(e)[m])

(***************************************************************************)
(* Claims about the shortlist filter of the prediction pipeline.           *)
(***************************************************************************)
\* thread t leaves the filter of its pipeline with too few histories
FilteredOut(t) ==
    /\ pc[t] \in {"cap_filter", "tab_filter"}
    /\ ctx[t].histories < MinHistories
    /\ pc'[t] # pc[t]

\* C15: with fewer than 15 shortlisted histories the pipeline reports the
\* trainer's class of error, RuntimeError (to its caller, or to the except
\* clause of build_knowledge_base), and train_points_model is not called.
C15_TooFewHistoriesIsRuntimeError ==
    [][\A t \in Threads :
          /\ FilteredOut(t) =>
                /\ trainRuns' = trainRuns
                /\ \/ ret'[t] = Raise("RuntimeError")
                   \/ op[t] = "kb" /\ pc'[t] = "kb_docs" /\ frame'[t].bundle = NoBundle
          /\ pc[t] \in {"cap_train", "tab_train"} /\ pc'[t] # pc[t]
                => ctx[t].histories >= MinHistories]_vars

(***************************************************************************)
(* Claims about the classifier's decision.                                 *)
(***************************************************************************)
\* the similarities of the classified text to the centroids, in dict order
Similarities ==
    Scores(QueryVector(_tokenize(reply.text), clf.idf), clf.intent_vectors)

\* the largest of sims, 0 when there is none
Largest(sims) ==
    CHOOSE m \in {sims[k] : k \in 1 .. Len(sims)} \cup {0} :
        \A k \in 1 .. Len(sims) : sims[k] <= m

\* the intents named by the example set
IntentsOf(intent_examples) == {intent_examples[k].intent : k \in 1 .. Len(intent_examples)}

\* the reply is the one the decision rule prescribes for similarities sims
\* whose largest is best
Prescribed(sims, best) ==
    /\ reply.found <=> best >= 300
    /\ reply.score = best
    /\ reply.found =>
          /\ reply.intent \in IntentsOf(clf.intent_examples)
          /\ \E k \in 1 .. Len(sims) :
                clf.intent_vectors[k].intent = reply.intent /\ sims[k] = best
    /\ ~reply.found => reply.intent = ""

\* two of the similarities are positive and differ
Contested(sims) == \E k, l \in 1 .. Len(sims) : 0 < sims[k] /\ sims[k] < sims[l]

PrescribedFor(sims) == Prescribed(sims, Largest(sims))

\* C16: classify returns an intent exactly when the best centroid
\* similarity is at least 0.3, and then an intent of the example set whose
\* centroid has that best similarity; otherwise it returns no intent; the
\* score is the best similarity either way.
C16_DecisionRule == reply.phase = "returned" => PrescribedFor(Similarities)

\* Reached: no intent was returned for a text that is similar to the
\* centroids of two intents, to one more than to the other, but to neither
\* by 0.3.
C16_Witness ==
    /\ reply.phase = "returned"
    /\ ~reply.found
    /\ reply.score > 0
    /\ Contested(Similarities)

\* C17: classify returns a result for every text, and a text without
\* tokens or without a term of the vocabulary gets no intent and score 0.
C17_NeverFails ==
    /\ reply.phase \in {"none", "returned"}
    /\ (/\ reply.phase = "returned"
        /\ \A i \in 1 .. Len(_tokenize(reply.text)) :
              _tokenize(reply.text)[i] \notin DOMAIN clf.idf)
          => ~reply.found /\ reply.intent = "" /\ reply.score = 0

\* Reached: a text with tokens, none of them in the vocabulary, was
\* classified.
C17_Witness ==
    /\ reply.phase = "returned"
    /\ _tokenize(reply.text) # << >>
    /\ \A i \in 1 .. Len(_tokenize(reply.text)) :
          _tokenize(reply.text)[i] \notin DOMAIN clf.idf

(***************************************************************************)
(* Claims about retrieval.  They are stated on the texts of the corpus     *)
(* and of the query, document i being the one built from rt_in.texts[i].   *)
(***************************************************************************)
\* how often term t occurs among tokens
Occurrences(tokens, t) == Cardinality({j \in 1 .. Len(tokens) : tokens[j] = t})

TermsOf(tokens) == {tokens[j] : j \in 1 .. Len(tokens)}

QueryTokens == _tokenize(rt_in.query)

\* the tokens of every document of the corpus, in corpus order
CorpusTokens == List([i \in 1 .. Len(rt_in.texts) |-> _tokenize(rt_in.texts[i])])

\* the number of documents of the corpus that hold term t
DocumentFrequency(corpus, t) ==
    Cardinality({i \in 1 .. Len(corpus) : t \in TermsOf(corpus[i])})

\* query count x document count x idf for the terms in ts, a sequence of
\* the distinct terms of the query
RECURSIVE OverlapScore(_, _, _, _)
OverlapScore(query, corpus, i, ts) ==
    IF ts = << >> THEN 0
    ELSE OverlapScore(query, corpus, i, Tail(ts))
         + (IF Head(ts) \in TermsOf(corpus[i])
            THEN Occurrences(query, Head(ts))
                 * Occurrences(corpus[i], Head(ts))
                 * (FxLn(Len(corpus) + 1, DocumentFrequency(corpus, Head(ts)) + 1) + FX)
            ELSE 0)

\* the score the contract gives every document of the corpus
ScoresOf(query, corpus) ==
    List([i \in 1 .. Len(corpus) |-> OverlapScore(query, corpus, i, Distinct(query))])

\* the documents that share a term with the query
RelevantOf(query, corpus) ==
    {i \in 1 .. Len(corpus) : TermsOf(corpus[i]) \cap TermsOf(query) # {}}

\* document a ranks before document b
RanksBefore(scores, a, b) ==
    scores[a] > scores[b] \/ (scores[a] = scores[b] /\ a < b)

Returned == {rt_out.documents[r] : r \in 1 .. Len(rt_out.documents)}

TopKOfRelevant(scores, relevant, returned) ==
    /\ Len(rt_out.documents) <= rt_in.top_k
    /\ Cardinality(returned) = Len(rt_out.documents)
    /\ returned \subseteq relevant
    /\ \A i \in relevant : scores[i] > 0
    /\ \A i \in relevant \ returned :
          /\ Len(rt_out.documents) = rt_in.top_k
          /\ \A d \in returned : RanksBefore(scores, d, i)

\* C18: retrieve returns at most top_k documents, each sharing a term with
\* the query, and leaves out a document that shares a term only when top_k
\* documents that rank before it are returned.
C18_TopKOfRelevant ==
    rt_out.phase = "returned" =>
        TopKOfRelevant(ScoresOf(QueryTokens, CorpusTokens),
                       RelevantOf(QueryTokens, CorpusTokens), Returned)

CutOff(relevant, returned) ==
    /\ returned # {}
    /\ relevant \ returned # {}
    /\ relevant # 1 .. Len(rt_in.texts)

\* Reached: a relevant document was cut off by top_k while the corpus also
\* held a document without any term of the query.
C18_Witness ==
    /\ rt_out.phase = "returned"
    /\ CutOff(RelevantOf(QueryTokens, CorpusTokens), Returned)

RankedStably(scores) ==
    \A r, q \in 1 .. Len(rt_out.documents) :
        r < q => RanksBefore(scores, rt_out.documents[r], rt_out.documents[q])

\* C19: the returned documents are in non-increasing order of score, and
\* documents of equal score are in corpus order.
C19_RankedStably ==
    rt_out.phase = "returned" => RankedStably(ScoresOf(QueryTokens, CorpusTokens))

TieAndReordering(scores) ==
    /\ \E r, q \in 1 .. Len(rt_out.documents) :
          r < q /\ scores[rt_out.documents[r]] = scores[rt_out.documents[q]]
    /\ \E r, q \in 1 .. Len(rt_out.documents) :
          r < q /\ rt_out.documents[r] > rt_out.documents[q]

\* Reached: of the returned documents two have the same score, and one was
\* moved ahead of a document that precedes it in the corpus.
C19_Witness ==
    /\ rt_out.phase = "returned"
    /\ TieAndReordering(ScoresOf(QueryTokens, CorpusTokens))

\* the document with tokens doc holds every term of the query exactly n times
HoldsAllTerms(query, doc, n) ==
    \A t \in TermsOf(query) : Occurrences(doc, t) = n

ScoredAsSum(scores) ==
    \A k \in 1 .. Len(rt_out.scored_docs) :
        rt_out.scored_docs[k].score = scores[rt_out.scored_docs[k].doc]

TwiceThenOnce(query, corpus) ==
    \A a, b, c \in 1 .. 3 :
        /\ HoldsAllTerms(query, corpus[a], 2)
        /\ HoldsAllTerms(query, corpus[b], 1)
        /\ HoldsAllTerms(query, corpus[c], 0)
        => rt_out.documents = <<a, b>>

\* C20: the score of a document is the sum over the terms it shares with
\* the query of query count x document count x idf over the corpus at
\* hand; and of three documents that hold the query's terms twice, once and
\* not at all, the first two are returned, in this order, whatever their
\* order in the corpus (top_k being 2 or more).
C20_ScoreAndRanking ==
    /\ rt_out.phase \in {"scored", "returned"} =>
          ScoredAsSum(ScoresOf(QueryTokens, CorpusTokens))
    /\ (/\ rt_out.phase = "returned"
        /\ Len(rt_in.texts) = 3
        /\ rt_in.top_k >= 2)
          => (QueryTokens # << >> => TwiceThenOnce(QueryTokens, CorpusTokens))

OnceBeforeTwice(query, corpus) ==
    /\ Cardinality(TermsOf(query)) = 2
    /\ \E a, b, c \in 1 .. 3 :
          /\ HoldsAllTerms(query, corpus[a], 2)
          /\ HoldsAllTerms(query, corpus[b], 1)
          /\ HoldsAllTerms(query, corpus[c], 0)
          /\ b < a

\* Reached: retrieval returned for a corpus of three documents in which the
\* one that holds the two terms of the query once precedes the one that
\* holds them twice.
C20_Witness ==
    /\ rt_out.phase = "returned"
    /\ Len(rt_in.texts) = 3
    /\ rt_in.top_k >= 2
    /\ OnceBeforeTwice(QueryTokens, CorpusTokens)

(***************************************************************************)
(* Claims about empty inputs and about the composed answer.                *)
(***************************************************************************)
NoToken(text) == \A k \in 1 .. Len(text) : ~IsTokenChar(text[k])

\* C21: retrieve returns the empty list for a query without tokens and for
\* an empty corpus, and generate_answer returns the fixed message and no
\* citation for the empty list; neither raises.
C21_EmptyInputsDegrade ==
    /\ (rt_out.phase \in {"returned", "answered"} /\ (rt_in.texts = << >> \/ NoToken(rt_in.query)))
          => rt_out.documents = << >>
    /\ (answer.phase = "done" /\ answer.documents = << >>)
          => /\ answer.result.phase = "returned"
             /\ answer.result.text = NothingFound
             /\ answer.result.citations = << >>

\* Reached: a query without a token was put to a corpus that is not empty,
\* and the answer was composed from the empty list.
C21_Witness ==
    /\ rt_out.phase = "answered"
    /\ rt_in.texts # << >>
    /\ NoToken(rt_in.query)
    /\ answer.phase = "done"
    /\ answer.documents = << >>

\* line k of lines is the numbered line of document k - 1
Numbered(line, n) == Len(line) >= 2 /\ line[1] = ToString(n) /\ line[2] = ". "

C23_SubBuilderFailuresSkipped ==
    kb_out.phase # "none" => kb_out.phase = "returned"

\* The same with the label conversion of ai_models.py:124 left aside: the
\* build returns whenever every label is a number.
ReturnsUnlessLabelRejected ==
    (kb_out.phase # "none" /\ kb_in.ctx.label_ok) => kb_out.phase = "returned"

\* the ids of the players that have a player document in the corpus
Documented ==
    {kb_out.documents[k].key : k \in {j \in 1 .. Len(kb_out.documents) :
                                         kb_out.documents[j].doc_type = "player"}}

\* the ids of the players of the roster with status 'a' and minutes > 0
EligibleIds ==
    {i \in 1 .. Len(kb_in.roster) : kb_in.roster[i].status = "a" /\ kb_in.roster[i].minutes > 0}

PlayerDocCount ==
    Cardinality({j \in 1 .. Len(kb_out.documents) : kb_out.documents[j].doc_type = "player"})

\* C24: the corpus holds one player document for each of the
\* min(player_limit, number of eligible players) eligible players of highest
\* form, and none for any other player.
C24_PlayerDocsForBestEligible ==
    kb_out.phase = "returned" =>
        /\ PlayerDocCount = Min(kb_in.player_limit, Cardinality(EligibleIds))
        /\ Cardinality(Documented) = PlayerDocCount
        /\ Documented \subseteq EligibleIds
        /\ \A e \in EligibleIds \ Documented : \A d \in Documented :
              kb_in.roster[e].form <= kb_in.roster[d].form

\* Reached: the limit cut off an eligible player, and the player documented
\* is not the first of the roster.
C24_Witness ==
    /\ kb_out.phase = "returned"
    /\ EligibleIds \ Documented # {}
    /\ Documented # {}
    /\ 1 \notin Documented

(***************************************************************************)
(* Claims about the chat handler.                                          *)
(***************************************************************************)
FallbackSteps == {"build", "retrieve", "compose"}

\* the positions in steps at which step was taken
TakenAt(steps, step) == {k \in 1 .. Len(steps) : steps[k] = step}

DetectionFirst(steps) ==
    /\ \A c \in TakenAt(steps, "classifier") : \E k \in TakenAt(steps, "keywords") : k < c
    /\ \A f \in 1 .. Len(steps) :
          steps[f] \in FallbackSteps =>
              /\ \E c \in TakenAt(steps, "classifier") : c < f
              /\ chat.intent.feature_id = ""
              /\ TakenAt(steps, "feature") = {}
    /\ chat.intent.feature_id # "" => \A f \in 1 .. Len(steps) : steps[f] \notin FallbackSteps

\* C25: in chat the keyword rules run before the classifier and both before
\* the corpus is built, searched and answered from; these three steps are
\* taken only for a message without a detected intent, and never after a
\* feature was tried, whether it failed or not.
C25_DetectionBeforeRetrieval ==
    chat.phase # "none" => DetectionFirst(chat.steps)

\* Reached: the classifier found the intent of a message no keyword rule
\* knows, the feature raised RuntimeError, and the error was the reply.
C25_Witness ==
    /\ chat.phase = "replied"
    /\ chat.steps = <<"keywords", "classifier", "feature">>
    /\ chat.reply = "RuntimeError"

(***************************************************************************)
(* Claims about the readers of the classifier and of the model.            *)
(***************************************************************************)
\* C26: whatever classify calls were made on the built classifier, its idf
\* table and its intent centroids are what the construction computed from
\* the examples; whatever predict_upcoming_points calls were made with a
\* model dictionary, its weights, bias, means and stds are those it had
\* when it was returned by the training.
C26_ReadersLeaveStateAlone ==
    /\ clf.phase = "fitted" =>
          /\ clf.idf = Idf(clf.documents)
          /\ clf.intent_vectors = IntentVectors(clf.documents, Idf(clf.documents))
    /\ pred.phase = "returned" =>
          /\ pred.model.weights = train.model.weights
          /\ pred.model.bias = train.model.bias
          /\ pred.model.feature_means = train.model.feature_means
          /\ pred.model.feature_stds = train.model.feature_stds

\* Reached: a text with a token the idf table does not hold has been
\* classified, and players have been predicted with the model.
C26_Witness ==
    /\ clf.phase = "fitted"
    /\ reply.phase = "returned"
    /\ \E k \in 1 .. Len(_tokenize(reply.text)) : _tokenize(reply.text)[k] \notin DOMAIN clf.idf
    /\ pred.phase = "returned"
    /\ pred.predictions # << >>

(***************************************************************************)
(* Claims about the model train_points_model returns.                      *)
(***************************************************************************)
\* C27: in every model train_points_model returns, weights, feature_means
\* and feature_stds each have one entry per tracked field (10), every
\* feature_std is above zero, and samples is the number of training samples
\* _build_training_samples built from the input.
C27_ReturnedModelWellFormed ==
    train.phase = "returned" =>
        /\ NumFeatures = 10
        /\ Len(train.model.weights) = NumFeatures
        /\ Len(train.model.feature_means) = NumFeatures
        /\ Len(train.model.feature_stds) = NumFeatures
        /\ \A j \in 1 .. Len(train.model.feature_stds) : train.model.feature_stds[j] > 0
        /\ train.model.samples = Len(_build_training_samples(t_in.histories, t_in.w).rows)

\* Reached: a model trained on several samples in which one field is the
\* same in every sample and another is not.
C27_Witness ==
    /\ train.phase = "returned"
    /\ train.model.samples > 1
    /\ \E j \in 1 .. NumFeatures :
          \A a, b \in 1 .. Len(train.normalised) :
              _build_training_samples(t_in.histories, t_in.w).rows[a][j]
                  = _build_training_samples(t_in.histories, t_in.w).rows[b][j]
    /\ \E j \in 1 .. NumFeatures : train.model.feature_stds[j] # FX

\* the errors of the rows under the weights and the bias of a step
ErrorsUnder(normalised, targets, weights, bias) ==
    List([i \in 1 .. Len(normalised) |-> (bias + Dot(weights, normalised[i])) - targets[i]])

\* weights and bias are those of before, moved by the learning rate along
\* the mean gradient (with the L2 term of every row) of the errors of before
FullBatchUpdate(normalised, errors, before, after) ==
    /\ after.bias = before.bias - Quot(FxMul(LearningRate, SumSeq(errors)), Len(normalised))
    /\ Len(after.weights) = Len(before.weights)
    /\ \A j \in 1 .. Len(before.weights) :
          after.weights[j] =
              before.weights[j]
                  - Quot(FxMul(LearningRate,
                               SumSeq([i \in 1 .. Len(normalised) |->
                                          FxMul(errors[i], normalised[i][j])
                                              + FxMul(L2, before.weights[j])])),
                         Len(normalised))

EpochTaken ==
    /\ train.phase = "fitting"
    /\ train'.phase = "fitting"
    /\ train' # train

Returning ==
    /\ train.phase = "fitting"
    /\ train'.phase # "fitting"

\* C28: a fit is only ever under way on a non-empty sample set and has
\* then made at most 400 update steps; whatever it does next is either one
\* more step, which takes the weights and the bias to the values that the
\* gradients of all rows under the weights and bias of the step before
\* give, or its return, which happens after the 400th step and at no other
\* point and hands back the model of that step.  The steps left,
\* 400 - epoch, fall by one with every step, so the loop ends.
C28_FixedEpochLoop ==
    /\ Epochs = 400
    /\ [](train.phase \in {"fitting", "returned"} =>
              /\ train.normalised # << >>
              /\ train.epoch <= Epochs)
    /\ [](train.phase = "returned" => train.epoch = Epochs)
    /\ [][EpochTaken =>
              /\ train'.epoch = train.epoch + 1
              /\ FullBatchUpdate(train.normalised,
                                 ErrorsUnder(train.normalised, train.targets,
                                             train.model.weights, train.model.bias),
                                 train.model, train'.model)]_vars
    /\ [][Returning =>
              /\ train.epoch = Epochs
              /\ train'.phase = "returned"
              /\ train'.epoch = Epochs
              /\ train'.model = train.model]_vars

\* Reached: a fit of several samples has returned after its 400 steps with
\* weights and a bias that moved.
C28_Witness ==
    /\ train.phase = "returned"
    /\ train.epoch = Epochs
    /\ Len(train.normalised) > 1
    /\ train.model.bias # 0
    /\ \E j \in 1 .. NumFeatures : train.model.weights[j] # 0

(***************************************************************************)
(* Claims about the squad projection.                                      *)
(***************************************************************************)
\* pick.get('multiplier', 1)
MultiplierOf(pick) == IF "multiplier" \in DOMAIN pick THEN pick.multiplier ELSE 1

\* the picks with a multiplier above zero (or not), in pick order
PicksWhere(picks, starting) ==
    SelectSeq(picks, LAMBDA pick : (MultiplierOf(pick) > 0) = starting)

\* the model's prediction where the bundle has one for the player, the
\* heuristic one where it has not, 0.0 where there is neither
ExpectedPrediction(ai_bundle, player_id) ==
    IF "prediction_map" \in DOMAIN ai_bundle /\ player_id \in DOMAIN ai_bundle.prediction_map
    THEN ai_bundle.prediction_map[player_id].predicted
    ELSE IF player_id \in DOMAIN FallbackPredictions THEN FallbackPredictions[player_id]
    ELSE 0

\* details are the picks, one for one and in order, with their predictions
DetailsMatch(details, picks, ai_bundle) ==
    /\ Len(details) = Len(picks)
    /\ \A i \in 1 .. Len(picks) :
          /\ details[i].player_id = picks[i].element
          /\ details[i].multiplier = MultiplierOf(picks[i])
          /\ details[i].predicted = ExpectedPrediction(ai_bundle, picks[i].element)

\* C29: a projection that compute_team_projection returns has as starters
\* the picks with a multiplier above zero and as bench the other picks,
\* both in pick order, every detail carrying the model prediction of its
\* player where there is one and the heuristic prediction otherwise, and
\* predicted_total is the sum of predicted times multiplier over the
\* starters.
C29_SquadProjection ==
    (proj.phase = "returned" /\ proj.projection = "dict") =>
        /\ DetailsMatch(proj.starters, PicksWhere(proj.squad.picks, TRUE), proj.ai_bundle)
        /\ DetailsMatch(proj.bench, PicksWhere(proj.squad.picks, FALSE), proj.ai_bundle)
        /\ Len(proj.starters) + Len(proj.bench) = Len(proj.squad.picks)
        /\ proj.predicted_total =
              SumSeq([i \in 1 .. Len(proj.starters) |->
                         proj.starters[i].predicted * proj.starters[i].multiplier])

\* Reached: a squad with a captain who has a model prediction, a starter
\* with a heuristic prediction only, and a benched player with a prediction.
C29_Witness ==
    /\ proj.phase = "returned"
    /\ proj.projection = "dict"
    /\ \E i \in 1 .. Len(proj.starters) :
          /\ proj.starters[i].multiplier = 2
          /\ proj.starters[i].player_id = 1
          /\ "prediction_map" \in DOMAIN proj.ai_bundle
    /\ \E i \in 1 .. Len(proj.starters) :
          /\ proj.starters[i].player_id = 2
          /\ proj.starters[i].predicted > 0
    /\ \E i \in 1 .. Len(proj.bench) : proj.bench[i].predicted > 0
    /\ MultiplierOf(proj.squad.picks[1]) = 0

(***************************************************************************)
(* Claims about the model cache.                                           *)
(***************************************************************************)
\* the _fetch_or_train_ai_model call of thread t ends in this step
FetchEnds(t) ==
    /\ op[t] = "fetch"
    /\ pc[t] # "idle"
    /\ pc'[t] = "idle"

\* a call that fails leaves the slot as it was and hands on the exception;
\* a call that finds the slot empty goes on to train
FailureLeavesSlot(t) ==
    /\ (FetchEnds(t) /\ ret'[t].tag = "raise") =>
          /\ _AI_PREDICTION_CACHE' = _AI_PREDICTION_CACHE
          /\ ret'[t].exc \in {"RuntimeError", "ValueError"}
    /\ (pc[t] = "fetch_check" /\ _AI_PREDICTION_CACHE = NoBundle /\ pc'[t] # pc[t]) =>
          pc'[t] = "cap_filter"

\* a call that returns a bundle returns the one the slot holds, and a call
\* that found the slot filled returns it whatever its context
ReturnsSlot(t) ==
    /\ (FetchEnds(t) /\ ret'[t].tag = "bundle") => ret'[t].bundle = _AI_PREDICTION_CACHE'
    /\ (pc[t] = "fetch_check" /\ _AI_PREDICTION_CACHE # NoBundle /\ pc'[t] # pc[t]) =>
          /\ pc'[t] = "idle"
          /\ ret'[t] = [tag |-> "bundle", bundle |-> _AI_PREDICTION_CACHE, cached |-> TRUE]
          /\ TotalTrainRuns' = TotalTrainRuns

\* C30: a _fetch_or_train_ai_model call that fails leaves the slot empty
\* and raises, and the next call trains again; a slot that is filled is
\* never cleared or replaced, and every call from then on returns the
\* bundle in the slot, whatever its context.
C30_CacheStateMachine ==
    [][/\ _AI_PREDICTION_CACHE # NoBundle => _AI_PREDICTION_CACHE' = _AI_PREDICTION_CACHE
       /\ \A t \in Threads : FailureLeavesSlot(t) /\ ReturnsSlot(t)]_vars

====
